---- MODULE Spec2Model ----
(***************************************************************************)
(* Model of the Mammotion cloud API client (src/lib/mammotion-api.js):     *)
(* the session held by one MammotionApi instance and the asynchronous      *)
(* operations running against it (_retry around a wrapped call,            *)
(* refreshSession, authenticate, restoreAuthState, isAuthenticated,        *)
(* getAuthState, listDevices, sendCommand).  Every action is the code that *)
(* runs between two suspension points (await) of one operation.            *)
(***************************************************************************)
EXTENDS Integers, Sequences, FiniteSets, TLC

VARIABLES
    client,   \* the fields of the MammotionApi instance (constructor, 40-59)
    task,     \* per async operation in flight: its locals and its position
    issued,   \* number of tokens the vendor's token endpoint has issued so far
    actor,    \* the operation that took the last step
    logged,   \* what the last step passed to the logger
    device,   \* the mower device that owns the client (base-mower-device)
    signer,   \* the last parameter mapping signed, and its canonical strings
    wire,     \* the last _request call: its options, what the wire brought, its result
    driver    \* the last device record the drivers were asked about, their answers

vars == <<client, task, issued, actor, logged, device, signer, wire, driver>>

----------------------------------------------------------------------------
(* Values *)

\* JS null / undefined / 0 for numeric fields, "" for textual ones (all falsy)
Null == 0
NullStr == ""

Truthy(v) == v # Null
TruthyStr(s) == s # NullStr

\* constants.js
MAX_RETRIES == 3
RETRY_DELAY == 1000
RETRY_MULTIPLIER == 2
DEFAULT_REGION == "EU"

\* COMMANDS (constants.js 95-101): the service identifiers the client names
COMMANDS == {"start_task", "pause_task", "resume_task", "return_to_dock", "stop_task"}

\* isAuthenticated, line 408: bufferTime = 5 * 60 * 1000 ms
BufferTime == 300000

\* bounds of the model: the tokens the token endpoint issues in a behaviour
\* with one operation at a time, and with two operations interleaved
MaxTokens == 4
MaxConcTokens == 2

\* the async operations that may be in flight on the one client
Runs == {"a", "b"}
SeqRuns == {"a"}

\* errors.js: the error classes, and instanceof along the class hierarchy
ErrorKinds == {"Authentication", "TokenExpired", "SessionInvalid", "RateLimit",
               "DeviceOffline", "Api", "Network"}

IsAuthenticationError(e) == e.kind \in {"Authentication", "TokenExpired", "SessionInvalid"}
IsTokenExpiredError(e) == e.kind = "TokenExpired"
IsRateLimitError(e) == e.kind = "RateLimit"

\* ERROR_CODES (constants.js 116-122)
TOKEN_EXPIRED == 460
SESSION_INVALID == 2401
RATE_LIMITED == 429
DEVICE_OFFLINE == 6205
UNAUTHORIZED == 401

\* the code an error carries when its constructor is given none: the default
\* of its class (errors.js 24, 31, 39, 47), null for the others
DefaultCode(kind) ==
    CASE kind = "TokenExpired" -> TOKEN_EXPIRED
      [] kind = "SessionInvalid" -> SESSION_INVALID
      [] kind = "RateLimit" -> RATE_LIMITED
      [] kind = "DeviceOffline" -> DEVICE_OFFLINE
      [] OTHER -> Null

\* an error value: its class, where it was constructed, retryAfter (only
\* RateLimitError carries one; null when the constructor gets none) and code
Error(kind, origin, retryAfter) ==
    [kind |-> kind, origin |-> origin, retryAfter |-> retryAfter, code |-> DefaultCode(kind)]
NoError == Error("none", "none", Null)

\* _request, lines 92 and 98: ApiError carrying the HTTP status
ApiErrorOf(status) == [Error("Api", "fn", Null) EXCEPT !.code = status]

\* retryAfter values a RateLimitError may carry (ms); Null is absent
RetryAfterValues == {Null, 500, 3000}

\* what the function wrapped by _retry may throw
CallErrors ==
    { Error(k, "fn", Null) : k \in ErrorKinds \ {"RateLimit"} }
    \cup { Error("RateLimit", "fn", ra) : ra \in RetryAfterValues }

\* the reduced set used when two operations run concurrently
ConcCallErrors ==
    { Error("TokenExpired", "fn", Null), Error("Network", "fn", Null) }

\* what _request may reject with (ApiError for non-2xx, NetworkError)
RequestErrors(origin) == { Error("Api", origin, Null), Error("Network", origin, Null) }

----------------------------------------------------------------------------
(* Pure helpers of _retry *)

RECURSIVE Pow(_, _)
Pow(b, e) == IF e = 0 THEN 1 ELSE b * Pow(b, e - 1)

\* variants of the rate-limit delay: the larger of the two bases, and a
\* multiplier that shrinks with the attempt
RateLimitDelayMax(retryAfter, attempt) ==
    (IF retryAfter > RETRY_DELAY THEN retryAfter ELSE RETRY_DELAY) * Pow(RETRY_MULTIPLIER, attempt)

RateLimitDelayShrinking(retryAfter, attempt) ==
    (IF Truthy(retryAfter) THEN retryAfter ELSE RETRY_DELAY)
        * Pow(RETRY_MULTIPLIER, MAX_RETRIES - attempt)

\* line 213: (error.retryAfter || RETRY_DELAY) * RETRY_MULTIPLIER ** attempt
RateLimitDelay(retryAfter, attempt) ==
    (IF Truthy(retryAfter) THEN retryAfter ELSE RETRY_DELAY) * Pow(RETRY_MULTIPLIER, attempt)

\* a variant that grows linearly
BackoffDelayLinear(attempt) == RETRY_DELAY * (attempt + 1)

\* line 220: RETRY_DELAY * RETRY_MULTIPLIER ** attempt
BackoffDelay(attempt) == RETRY_DELAY * Pow(RETRY_MULTIPLIER, attempt)

----------------------------------------------------------------------------
(* State after construction *)

\* constructor, lines 40-59
NewClient ==
    [ region |-> DEFAULT_REGION,
      accessToken |-> Null, refreshToken |-> Null, tokenExpiry |-> Null,
      identityId |-> NullStr, clientId |-> NullStr, iotEndpoint |-> NullStr,
      iotToken |-> Null, iotTokenExpiry |-> Null,
      email |-> NullStr, password |-> NullStr ]

\* a status payload: the properties of response.data that updateStatus reads
\* (absent properties are undefined)
Status(hasWorkState, workState, hasChargeState, chargeState) ==
    [ hasWorkState |-> hasWorkState, workState |-> workState,
      hasChargeState |-> hasChargeState, chargeState |-> chargeState ]
NoStatus == Status(FALSE, 0, FALSE, 0)

\* a response body: its code property, if it has one, and its data
Response(hasCode, code, data) == [hasCode |-> hasCode, code |-> code, data |-> data]
NoResponse == Response(FALSE, 0, NoStatus)

\* a sleep of a _retry run, as remembered in its history
NoSleep == [kind |-> "none", retryAfter |-> Null, delay |-> Null, attempt |-> 0]

\* the counters of a run, as remembered when a failure is caught
Snapshot(t) == [attempt |-> t.attempt, invoked |-> t.invoked,
                sleeps |-> t.sleeps, refreshes |-> t.refreshes, auths |-> t.auths]

\* an operation not started: no locals yet
IdleTask ==
    [ op |-> "none", pc |-> "idle",
      \* locals of _retry (193-194) and the pending timer of _sleep (234)
      attempt |-> 0, lastError |-> NoError, timer |-> Null,
      \* the token the in-flight wrapped call was built with (146)
      sent |-> Null,
      \* how the operation ended: the value returned or the error raised
      value |-> NullStr, result |-> NoError,
      \* history of this run, reset when the operation starts
      invoked |-> 0, refreshes |-> 0, auths |-> 0, sleeps |-> 0,
      thrown |-> NoError, heldAtFail |-> FALSE, canReauth |-> FALSE,
      snap |-> [attempt |-> 0, invoked |-> 0, sleeps |-> 0, refreshes |-> 0, auths |-> 0],
      cause |-> Null, reauthFor |-> Null,
      curSleep |-> NoSleep, prevSleep |-> NoSleep,
      \* the device operation built on _retry, its listing stage, the command
      \* it names and the devices it has collected (463-548)
      api |-> "none", stage |-> "none", command |-> NullStr, devices |-> 0,
      \* history of a listDevices call: what the primary listing yielded, how
      \* often it was invoked, and whether an endpoint hint was set then
      primaryDevices |-> 0, primaryInvoked |-> 0, hint |-> FALSE,
      \* the Client-Id header of the last token request sent (277, 359)
      header |-> NullStr,
      \* how the access token of the last login decoded (306-313)
      jwt |-> NullStr,
      \* the caller's isAuthenticated() after the operation: when, and the answer
      checkedAt |-> Null, authenticated |-> FALSE,
      \* the nonces of the signed requests this run has sent, in order, and the
      \* iotToken each was signed with (generateApiSignature, 68-82)
      nonces |-> <<>>, tokens |-> <<>>,
      \* the body of the last response to a signed request: its code, if any,
      \* and the status properties it carries (155-183, 526)
      response |-> NoResponse, answered |-> FALSE,
      \* whether the device that awaits this operation has resumed after it
      handled |-> FALSE,
      \* the error _retry has raised in this run, swallowed or not
      retryRaised |-> NoError,
      \* the token listDevices read when it was called (466), and the token
      \* the client held when the last request of this run was sent
      bearer |-> Null, heldAtSend |-> Null,
      \* updateStatus suspended on its capability writes: its previousState (506)
      updating |-> FALSE, previousState |-> "none" ]

\* MOWER_STATES (constants.js 70-78)
MOWER_STATES == {"idle", "mowing", "charging", "returning", "paused", "error", "offline"}

\* the device store before pairing has written an authState
NoStore ==
    [ accessToken |-> Null, refreshToken |-> Null, tokenExpiry |-> Null,
      identityId |-> NullStr, clientId |-> NullStr, iotEndpoint |-> NullStr,
      region |-> NullStr, email |-> NullStr, iotToken |-> Null, iotTokenExpiry |-> Null ]

\* the device before onInit: no client, nothing polled; lastWrite, lastStatus
\* and lastError remember what wrote mower_state last; step names the last
\* continuation of the device, with its availability before it and whether it
\* called setUnavailable; sleepingAtDelete and invokedAtDelete remember the
\* sleeping runs and the requests each run had sent when the device was deleted;
\* store is the authState of the device store, timers the interval timers set
\* and not cleared, polling whether _pollInterval holds one; lastState is
\* _lastState, stateBefore its value before updateStatus wrote it last, and
\* fired the flow triggers that updateStatus fired
NewDevice ==
    [ api |-> FALSE, polling |-> FALSE, deleted |-> FALSE,
      available |-> TRUE, mower_state |-> "none", lastState |-> "none",
      lastWrite |-> "none", lastStatus |-> NoStatus, lastError |-> NoError,
      step |-> "none", calledUnavailable |-> FALSE, availableBefore |-> TRUE,
      sleepingAtDelete |-> {}, invokedAtDelete |-> [p \in Runs |-> 0],
      store |-> NoStore, timers |-> 0, fired |-> {}, stateBefore |-> "none" ]

\* no request made yet
NoWire ==
    [ requests |-> 0, method |-> NullStr, written |-> FALSE,
      outcome |-> [kind |-> "none", statusCode |-> 0, data |-> NullStr, cause |-> NullStr],
      result |-> [settled |-> "none", value |-> [type |-> "none", of |-> NullStr],
                  error |-> NoError, message |-> NullStr,
                  details |-> [type |-> "none", of |-> NullStr]] ]

\* no device record matched yet
NoDriver ==
    [ asked |-> FALSE,
      record |-> [productName |-> <<>>, name |-> <<>>, productModel |-> <<>>,
                  model |-> <<>>, categoryKey |-> <<>>],
      matches |-> [LUBA |-> FALSE, LUBA_2 |-> FALSE, YUKA |-> FALSE] ]

\* nothing signed yet
NewSigner == [params |-> <<>>, reordered |-> <<>>, canonical |-> <<>>, canonicalReordered |-> <<>>]

Init ==
    /\ client = NewClient
    /\ task = [p \in Runs |-> IdleTask]
    /\ issued = 0
    /\ actor = "none"
    /\ logged = {}
    /\ device = NewDevice
    /\ signer = NewSigner
    /\ wire = NoWire
    /\ driver = NoDriver

----------------------------------------------------------------------------
(* Inputs from the vendor's servers and from the caller *)

\* Date.now() samples and the expires_in values (s) of a token response
ClockValues == {1000}
ExpiresInValues == {7200}

\* whether the token response carries a refresh_token
RefreshTokenShapes == {"present", "absent"}

\* second segment of the access token: decodes to JSON with an iot field,
\* decodes to JSON without one, or does not decode
JwtShapes == {"iot", "noiot", "bad"}

Credentials == { [email |-> "user", password |-> "secret"] }

\* what the caller may have persisted: the current layout (with or without a
\* refresh token) and the legacy layout (iotToken / iotTokenExpiry only)
Layouts == {"current", "norefresh", "legacy"}

StoredState(layout) ==
    [ accessToken |-> IF layout = "legacy" THEN Null ELSE 1,
      refreshToken |-> IF layout = "current" THEN 1 ELSE Null,
      tokenExpiry |-> IF layout = "legacy" THEN Null ELSE 7201000,
      identityId |-> "uid",
      clientId |-> IF layout = "legacy" THEN NullStr ELSE "cid:stored",
      iotEndpoint |-> NullStr,
      region |-> IF layout = "legacy" THEN NullStr ELSE DEFAULT_REGION,
      email |-> IF layout = "legacy" THEN NullStr ELSE "user",
      iotToken |-> 1,
      iotTokenExpiry |-> 7201000 ]

----------------------------------------------------------------------------
(* How an operation ends; the steps of the _retry loop *)

Return(t, v) == [t EXCEPT !.pc = "returned", !.value = v]
Raise(t, e) ==
    [t EXCEPT !.pc = "raised", !.result = e,
              !.retryRaised = IF t.op = "retry" THEN e ELSE @]

\* 466: the token listDevices puts into its Authorization header
BearerToken(c) == IF Truthy(c.accessToken) THEN c.accessToken ELSE c.iotToken

\* the device operations whose wrapped call is a signed request (520, 540)
SignedApis == {"getDeviceStatus", "sendCommand"}

\* a variant that draws one nonce per operation
NewNonceCached(t) == 1

\* generateUUID (20-26) and getTimestamp (33-35) are evaluated by every
\* generateApiSignature call (69-70): the n-th call of a run draws the n-th
\* fresh value
NewNonce(t) == Len(t.nonces) + 1

\* line 196: fn() is invoked; a signed call reads this.iotToken (146) and
\* signs its parameters anew (147); a listing call sends the headers that
\* listDevices built when it was called (471-475, 480, 496)
Invoke(t, c) ==
    [t EXCEPT !.pc = "call", !.invoked = @ + 1,
              !.sent = IF t.api = "listDevices" THEN t.bearer ELSE c.iotToken,
              !.heldAtSend = IF t.api = "listDevices" THEN BearerToken(c) ELSE c.iotToken,
              !.response = NoResponse, !.answered = FALSE,
              !.nonces = IF t.api \in SignedApis THEN Append(@, NewNonce(t)) ELSE @,
              !.tokens = IF t.api \in SignedApis THEN Append(@, c.iotToken) ELSE @]

\* a variant that never leaves the loop
NextAttemptNoCeiling(t, c) == Invoke([t EXCEPT !.attempt = @ + 1], c)

\* line 194: attempt++ ; attempt <= maxRetries ? next invocation : throw lastError (225)
NextAttempt(t, c) ==
    LET u == [t EXCEPT !.attempt = @ + 1]
    IN  IF u.attempt <= MAX_RETRIES THEN Invoke(u, c) ELSE Raise(u, u.lastError)

\* line 233-235: _sleep(ms) arms a timer and suspends
Sleep(t, ms) == [t EXCEPT !.pc = "sleep", !.timer = ms, !.sleeps = @ + 1]

----------------------------------------------------------------------------
(* authenticate, lines 245-328 *)

\* 249-255: store the credentials, make sure a client id exists
AuthenticateClient(c, email, password) ==
    [c EXCEPT !.email = email, !.password = password,
              !.clientId = IF TruthyStr(@) THEN @ ELSE "cid:generated"]

\* 257-291: send the token request and suspend on it
BeginAuthenticate(t) == [t EXCEPT !.pc = "authReq", !.auths = @ + 1]

\* 300-317: the session fields written from a response carrying an access token
PopulateSession(c, tok, rtShape, now, expiresIn, jwt) ==
    [c EXCEPT !.accessToken = tok,
              !.refreshToken = IF rtShape = "present" THEN tok ELSE Null,
              !.tokenExpiry = now + expiresIn * 1000,
              !.identityId = "uid",
              !.iotEndpoint = CASE jwt = "iot" -> "https://iot"
                                [] jwt = "noiot" -> NullStr
                                [] OTHER -> @,
              !.iotToken = tok,
              !.iotTokenExpiry = now + expiresIn * 1000]

----------------------------------------------------------------------------
(* refreshSession, lines 334-400 *)

\* a variant that leaves the legacy aliases as they were
RefreshedSessionKeepsAliases(c, tok, rtShape, now, expiresIn) ==
    [c EXCEPT !.accessToken = tok,
              !.refreshToken = IF rtShape = "present" THEN tok ELSE @,
              !.tokenExpiry = now + expiresIn * 1000]

\* 375-384: the session fields written from a refresh response
RefreshedSession(c, tok, rtShape, now, expiresIn) ==
    [c EXCEPT !.accessToken = tok,
              !.iotToken = tok,
              !.refreshToken = IF rtShape = "present" THEN tok ELSE @,
              !.tokenExpiry = now + expiresIn * 1000,
              !.iotTokenExpiry = now + expiresIn * 1000]

\* 337-339: without a refresh token refreshSession throws at once;
\* otherwise (341-373) it sends the refresh request and suspends on it
BeginRefresh(t, c) ==
    IF ~Truthy(c.refreshToken)
    THEN Raise(t, Error("Authentication", "refreshSession:no-refresh-token", Null))
    ELSE [t EXCEPT !.pc = "refreshReq", !.refreshes = @ + 1]

\* 392: the catch block re-authenticates only with cached credentials
CanReauthenticate(c) == TruthyStr(c.email) /\ TruthyStr(c.password)

\* a variant of the catch block that sends the refresh request again
RefreshRejectedResends(t, c, e) ==
    IF CanReauthenticate(c) THEN [t EXCEPT !.pc = "refreshReq", !.refreshes = @ + 1]
    ELSE Raise(t, e)

\* a variant of the catch block that backs the failed refresh off
RefreshRejectedBacksOff(t, c, e) ==
    IF CanReauthenticate(c) THEN BeginAuthenticate(t)
    ELSE IF t.op = "retry" THEN Sleep([t EXCEPT !.lastError = e], BackoffDelay(t.attempt))
    ELSE Raise(t, e)

\* 389-397: the refresh request was rejected with e
RefreshRejected(t, c, e) ==
    IF CanReauthenticate(c) THEN BeginAuthenticate(t) ELSE Raise(t, e)

\* 375, 399: a response without an access token leaves the try block and
\* reaches the final throw
RefreshWithoutToken(t, c) ==
    Raise(t, Error("Authentication", "refreshSession:no-access-token", Null))

\* after refreshSession or authenticate has returned normally: the caller of
\* the operation gets the session, _retry goes on with its loop (207-208)
Resume(t, c) ==
    IF t.op = "retry" THEN NextAttempt(t, c) ELSE Return(t, "session")

----------------------------------------------------------------------------
(* _retry, lines 192-226 *)

\* a variant that inverts the token-expiry exemption
IsTerminalInverted(e) == IsAuthenticationError(e) /\ IsTokenExpiredError(e)

\* 201: authentication errors other than token expiry are not retried
IsTerminal(e) == IsAuthenticationError(e) /\ ~IsTokenExpiredError(e)

\* a variant that refreshes on every token expiry
ShouldRefreshUnguarded(e, c) == IsTokenExpiredError(e)

\* 206: token expiry is handled by a refresh when a refresh token is held
ShouldRefresh(e, c) == IsTokenExpiredError(e) /\ Truthy(c.refreshToken)

\* a variant of the catch block that records only the first error
HandleFailureKeepsFirstError(t0, c, e) ==
    LET t == [t0 EXCEPT !.lastError = IF @ = NoError THEN e ELSE @]
    IN  IF IsTerminal(e) THEN Raise(t, e)
        ELSE IF ShouldRefresh(e, c) THEN BeginRefresh(t, c)
        ELSE IF IsRateLimitError(e) THEN Sleep(t, RateLimitDelay(e.retryAfter, t.attempt))
        ELSE IF t.attempt < MAX_RETRIES THEN Sleep(t, BackoffDelay(t.attempt))
        ELSE NextAttempt(t, c)

\* 197-223: the catch block, up to its next suspension point
HandleFailure(t0, c, e) ==
    LET t == [t0 EXCEPT !.lastError = e]
    IN  IF IsTerminal(e) THEN Raise(t, e)
        ELSE IF ShouldRefresh(e, c) THEN BeginRefresh(t, c)
        ELSE IF IsRateLimitError(e) THEN Sleep(t, RateLimitDelay(e.retryAfter, t.attempt))
        ELSE IF t.attempt < MAX_RETRIES THEN Sleep(t, BackoffDelay(t.attempt))
        ELSE NextAttempt(t, c)

\* a variant that keeps attempt and lastError in fields of the client
StoreLocalsShared(tk, p, t) ==
    [q \in DOMAIN tk |->
        IF q = p THEN t
        ELSE IF tk[q].op = "retry" /\ t.op = "retry"
             THEN [tk[q] EXCEPT !.attempt = t.attempt, !.lastError = t.lastError]
             ELSE tk[q]]

\* attempt and lastError are locals of one _retry call (193-194): a step of
\* run p writes the locals of p only
StoreLocals(tk, p, t) == [tk EXCEPT ![p] = t]

----------------------------------------------------------------------------
(* restoreAuthState, lines 440-456 *)

\* a variant that does not import the endpoint hint
RestoredWithoutEndpoint(c, state) ==
    LET token == IF Truthy(state.accessToken) THEN state.accessToken ELSE state.iotToken
        expiry == IF Truthy(state.tokenExpiry) THEN state.tokenExpiry ELSE state.iotTokenExpiry
    IN  [c EXCEPT !.accessToken = token,
                  !.refreshToken = state.refreshToken,
                  !.tokenExpiry = expiry,
                  !.identityId = state.identityId,
                  !.clientId = IF TruthyStr(state.clientId) THEN state.clientId
                               ELSE "cid:generated",
                  !.region = IF TruthyStr(state.region) THEN state.region ELSE DEFAULT_REGION,
                  !.email = state.email,
                  !.iotToken = token,
                  !.iotTokenExpiry = expiry]

\* a variant that imports the client id as it is stored
RestoredKeepsClientId(c, state) ==
    LET token == IF Truthy(state.accessToken) THEN state.accessToken ELSE state.iotToken
        expiry == IF Truthy(state.tokenExpiry) THEN state.tokenExpiry ELSE state.iotTokenExpiry
    IN  [c EXCEPT !.accessToken = token,
                  !.refreshToken = state.refreshToken,
                  !.tokenExpiry = expiry,
                  !.identityId = state.identityId,
                  !.clientId = state.clientId,
                  !.iotEndpoint = state.iotEndpoint,
                  !.region = IF TruthyStr(state.region) THEN state.region ELSE DEFAULT_REGION,
                  !.email = state.email,
                  !.iotToken = token,
                  !.iotTokenExpiry = expiry]

Restored(c, state) ==
    LET token == IF Truthy(state.accessToken) THEN state.accessToken ELSE state.iotToken
        expiry == IF Truthy(state.tokenExpiry) THEN state.tokenExpiry ELSE state.iotTokenExpiry
    IN  [c EXCEPT !.accessToken = token,
                  !.refreshToken = state.refreshToken,
                  !.tokenExpiry = expiry,
                  !.identityId = state.identityId,
                  !.clientId = IF TruthyStr(state.clientId) THEN state.clientId
                               ELSE "cid:generated",
                  !.iotEndpoint = state.iotEndpoint,
                  !.region = IF TruthyStr(state.region) THEN state.region ELSE DEFAULT_REGION,
                  !.email = state.email,
                  !.iotToken = token,
                  !.iotTokenExpiry = expiry]

----------------------------------------------------------------------------
(* isAuthenticated, lines 407-412; getAuthState, lines 418-433 *)

\* Date.now() samples of an isAuthenticated() call: soon after a login at
\* 1000 ms, one ms before the buffer of a token expiring at 7201000 ms
\* begins, the very ms it begins, and after the expiry
NowValues == {2000, 7201000 - BufferTime - 1, 7201000 - BufferTime, 7300000}

\* a variant whose comparison admits the boundary
IsAuthenticatedInclusive(c, now) ==
    LET token == IF Truthy(c.accessToken) THEN c.accessToken ELSE c.iotToken
        expiry == IF Truthy(c.tokenExpiry) THEN c.tokenExpiry ELSE c.iotTokenExpiry
    IN  Truthy(token) /\ expiry >= now + BufferTime

\* 409-411: !!(token && expiry > Date.now() + bufferTime)
IsAuthenticated(c, now) ==
    LET token == IF Truthy(c.accessToken) THEN c.accessToken ELSE c.iotToken
        expiry == IF Truthy(c.tokenExpiry) THEN c.tokenExpiry ELSE c.iotTokenExpiry
    IN  Truthy(token) /\ expiry > now + BufferTime

\* 419-432: the exported state (the password is not part of it)
GetAuthState(c) ==
    [ accessToken |-> c.accessToken,
      refreshToken |-> c.refreshToken,
      tokenExpiry |-> c.tokenExpiry,
      identityId |-> c.identityId,
      clientId |-> c.clientId,
      iotEndpoint |-> c.iotEndpoint,
      region |-> c.region,
      email |-> c.email,
      iotToken |-> IF Truthy(c.accessToken) THEN c.accessToken ELSE c.iotToken,
      iotTokenExpiry |-> IF Truthy(c.tokenExpiry) THEN c.tokenExpiry ELSE c.iotTokenExpiry ]

----------------------------------------------------------------------------
(* listDevices, lines 463-511; sendCommand, lines 536-548 *)

\* number of devices a listing response may carry (0: none, or no list at all)
DeviceCounts == {0, 2}

\* command names a caller may pass to sendCommand
CommandInputs == {"start_task", "return_to_dock", "open_lid"}

\* what _signedRequest may throw (164-180, and the rejections of _request);
\* its RateLimitError is constructed without retryAfter (173)
CommandErrors ==
    { Error(k, "fn", Null) : k \in {"TokenExpired", "SessionInvalid", "RateLimit",
                                     "DeviceOffline", "Api", "Network"} }

\* a variant that tries the IoT endpoint whenever the primary listing is empty
ShouldTryIotEndpointAlways(n, c) == n = 0

\* 489: devices.length === 0 && this.iotEndpoint
ShouldTryIotEndpoint(n, c) == n = 0 /\ TruthyStr(c.iotEndpoint)

\* 491-506: an error of the IoT-endpoint listing is caught and logged, and
\* listDevices returns what it has
Settle(t) ==
    IF t.api = "listDevices" /\ t.stage = "iot" /\ t.pc = "raised"
    THEN [t EXCEPT !.pc = "returned", !.value = "devices", !.result = NoError]
    ELSE t

\* 483-499: the primary listing has resolved with n devices
AfterPrimaryListing(t0, c, n) ==
    LET t == [t0 EXCEPT !.devices = n, !.primaryDevices = n,
                        !.primaryInvoked = t0.invoked,
                        !.hint = TruthyStr(c.iotEndpoint)]
    IN  IF ShouldTryIotEndpoint(n, c)
        THEN Invoke([t EXCEPT !.stage = "iot", !.attempt = 0, !.lastError = NoError,
                              !.invoked = 0], c)
        ELSE Return(t, "devices")

\* the Client-Id header a token request just sent was built with (277, 359)
RememberRequest(t, c) ==
    IF t.pc \in {"authReq", "refreshReq"} THEN [t EXCEPT !.header = c.clientId] ELSE t

----------------------------------------------------------------------------
(* _signedRequest, lines 145-184: the outcome of a response *)

\* body codes a response may carry
ResponseCodes == {0, 200, UNAUTHORIZED, 500, RATE_LIMITED, TOKEN_EXPIRED, SESSION_INVALID,
                  DEVICE_OFFLINE}

\* a variant without the device-offline case
SignedOutcomeNoOffline(response) ==
    IF response.hasCode /\ Truthy(response.code)
    THEN CASE response.code = TOKEN_EXPIRED -> Error("TokenExpired", "fn", Null)
           [] response.code = SESSION_INVALID -> Error("SessionInvalid", "fn", Null)
           [] response.code = RATE_LIMITED -> Error("RateLimit", "fn", Null)
           [] response.code # 200 -> ApiErrorOf(response.code)
           [] OTHER -> NoError
    ELSE NoError

\* 165-183: the error thrown for a response, NoError when it is returned
SignedOutcome(response) ==
    IF response.hasCode /\ Truthy(response.code)
    THEN CASE response.code = TOKEN_EXPIRED -> Error("TokenExpired", "fn", Null)
           [] response.code = SESSION_INVALID -> Error("SessionInvalid", "fn", Null)
           [] response.code = RATE_LIMITED -> Error("RateLimit", "fn", Null)
           [] response.code = DEVICE_OFFLINE -> Error("DeviceOffline", "fn", Null)
           [] response.code # 200 -> ApiErrorOf(response.code)
           [] OTHER -> NoError
    ELSE NoError


----------------------------------------------------------------------------
(* aliyun-signature: sortParams 53-58, generateApiSignature 68-109 *)

\* parameter names, in the order Array.prototype.sort() gives strings
KeyOrder == <<"appKey", "iotId", "nonce", "timestamp">>
ParamKeys == {KeyOrder[i] : i \in 1..Len(KeyOrder)}
ParamValues == {"x", "y"}
MaxParams == 3

Rank(k) == CHOOSE i \in 1..Len(KeyOrder) : KeyOrder[i] = k

\* an object as the sequence of its <<key, value>> entries in insertion order
ObjectKeys(params) == [i \in 1..Len(params) |-> params[i][1]]
ValueOf(params, k) == params[CHOOSE i \in 1..Len(params) : params[i][1] = k][2]

\* the insertion orders of a set of entries
Orderings(entries) ==
    { q \in [1..Cardinality(entries) -> entries] :
          \A i, j \in 1..Cardinality(entries) : i # j => q[i] # q[j] }

\* the objects with at most MaxParams of the parameter names
ParamMappings ==
    UNION { [ks -> ParamValues] : ks \in {k \in SUBSET ParamKeys : Cardinality(k) <= MaxParams} }
Entries(m) == { <<k, m[k]>> : k \in DOMAIN m }

\* a variant that leaves the keys in insertion order
SortKeysUnsorted(keys) == keys

\* .sort(): the keys in ascending order
RECURSIVE SortKeys(_)
SortKeys(keys) ==
    IF keys = <<>> THEN <<>>
    ELSE LET i == CHOOSE i \in 1..Len(keys) :
                      \A j \in 1..Len(keys) : Rank(keys[i]) <= Rank(keys[j])
             rest == [j \in 1..(Len(keys) - 1) |-> IF j < i THEN keys[j] ELSE keys[j + 1]]
         IN  <<keys[i]>> \o SortKeys(rest)

\* .join('&') of parts, each a sequence of string pieces
RECURSIVE Join(_)
Join(parts) ==
    IF parts = <<>> THEN <<>>
    ELSE IF Len(parts) = 1 THEN parts[1]
    ELSE parts[1] \o <<"&">> \o Join(Tail(parts))

\* 53-58: Object.keys(params).sort().map(key => key=value).join('&')
SortParams(params) ==
    LET keys == SortKeys(ObjectKeys(params))
    IN  Join([i \in 1..Len(keys) |-> <<keys[i], "=", ValueOf(params, keys[i])>>])

\* 84-86: stringToSign = path & sortedParamString
StringToSign(path, params) == <<path, "&">> \o SortParams(params)

----------------------------------------------------------------------------
(* updateStatus, base-mower-device 505-563: status normalization *)

WorkStates == {-1, 0, 1, 2, 3, 4, 5, 6}
ChargeStates == {0, 1, 2}

\* status payloads: workState present (chargeState absent, or charging
\* beside an idle or a mowing workState), or absent (chargeState absent or
\* present)
StatusPayloads ==
    { Status(TRUE, w, FALSE, 0) : w \in WorkStates }
    \cup { Status(TRUE, w, TRUE, 1) : w \in {0, 1} }
    \cup { Status(FALSE, 0, TRUE, c) : c \in ChargeStates }
    \cup { NoStatus }

\* responses to a signed status request: a success body with a status
\* payload, or the body of an offline device
StatusResponses ==
    { Response(FALSE, 0, st) : st \in StatusPayloads }
    \cup { Response(TRUE, DEVICE_OFFLINE, NoStatus) }

\* responses to a signed request by their code: none, or any of the codes
CodeResponses ==
    { Response(FALSE, 0, NoStatus) }
    \cup { Response(TRUE, c, NoStatus) : c \in ResponseCodes }

\* the reduced set used where the device is deleted during its polls: a
\* success, an expired token, an offline device
PollResponses ==
    { Response(FALSE, 0, NoStatus), Response(TRUE, TOKEN_EXPIRED, NoStatus),
      Response(TRUE, DEVICE_OFFLINE, NoStatus) }

\* a variant that looks at chargeState first
NormalizeStateChargeFirst(status) ==
    IF status.hasChargeState /\ status.chargeState = 1 THEN "charging"
    ELSE IF status.hasWorkState
         THEN CASE status.workState = 1 -> "mowing"
                [] status.workState = 2 -> "charging"
                [] status.workState = 3 -> "returning"
                [] status.workState = 4 -> "paused"
                [] status.workState = 5 -> "error"
                [] OTHER -> "idle"
         ELSE "idle"

\* a variant that reports work state 0 as offline
NormalizeStateOfflineOnZero(status) ==
    IF status.hasWorkState
    THEN CASE status.workState = 0 -> "offline"
           [] status.workState = 1 -> "mowing"
           [] status.workState = 2 -> "charging"
           [] status.workState = 3 -> "returning"
           [] status.workState = 4 -> "paused"
           [] status.workState = 5 -> "error"
           [] OTHER -> "idle"
    ELSE IF status.hasChargeState /\ status.chargeState = 1 THEN "charging"
    ELSE "idle"

\* 516-541: the switch over workState, then chargeState
NormalizeState(status) ==
    IF status.hasWorkState
    THEN CASE status.workState = 1 -> "mowing"
           [] status.workState = 2 -> "charging"
           [] status.workState = 3 -> "returning"
           [] status.workState = 4 -> "paused"
           [] status.workState = 5 -> "error"
           [] OTHER -> "idle"
    ELSE IF status.hasChargeState /\ status.chargeState = 1 THEN "charging"
    ELSE "idle"

\* 598-619: the flow triggers of a change from previousState to newState
TriggerStateChangeFlows(previousState, newState) ==
    (IF newState = "mowing" /\ previousState # "mowing" THEN {"mowing_started"} ELSE {})
    \cup (IF previousState = "mowing" /\ newState \in {"idle", "charging"}
          THEN {"mowing_finished"} ELSE {})
    \cup (IF newState = "charging" /\ previousState # "charging"
          THEN {"mower_docked"} ELSE {})
    \cup (IF newState = "error" /\ previousState # "error" THEN {"mower_error"} ELSE {})

\* 505-545: updateStatus has read _lastState and writes the normalized state
\* to the mower_state capability; it suspends on that write
StatusWritten(d, status) ==
    [d EXCEPT !.mower_state = NormalizeState(status),
              !.lastWrite = "status", !.lastStatus = status, !.lastError = NoError,
              !.step = "pollWrite", !.calledUnavailable = FALSE,
              !.availableBefore = d.available]

\* 548-562: after its capability writes updateStatus stores the state in
\* _lastState and fires the triggers of the change from the previousState it
\* had read; then pollStatus calls setAvailable (481)
StatusUpdated(d, status, previousState) ==
    [d EXCEPT !.lastState = NormalizeState(status),
              !.stateBefore = d.lastState,
              !.fired = IF previousState # "none" /\ previousState # NormalizeState(status)
                        THEN TriggerStateChangeFlows(previousState, NormalizeState(status))
                        ELSE {},
              !.step = "pollOk", !.calledUnavailable = FALSE,
              !.availableBefore = d.available, !.available = TRUE]

\* 463-468: stopPolling clears the interval _pollInterval holds, if any
StopPolling(d) ==
    [d EXCEPT !.polling = FALSE, !.timers = IF d.polling THEN @ - 1 ELSE @]

\* 445-458: startPolling stops the polling and sets a new interval
StartPolling(d) == [StopPolling(d) EXCEPT !.polling = TRUE, !.timers = @ + 1]

\* a variant that also makes the device unavailable
MarkedOfflineUnavailable(d, e) ==
    [d EXCEPT !.mower_state = "offline",
              !.lastWrite = "deviceOffline", !.lastError = e,
              !.step = "pollOffline", !.calledUnavailable = TRUE,
              !.availableBefore = d.available, !.available = FALSE]

\* 492-494: a poll that failed with DeviceOfflineError shows the offline state
MarkedOffline(d, e) ==
    [d EXCEPT !.mower_state = "offline",
              !.lastWrite = "deviceOffline", !.lastError = e,
              !.step = "pollOffline", !.calledUnavailable = FALSE,
              !.availableBefore = d.available]

\* 421, 490: setUnavailable after a failed refresh
MarkedUnavailable(d, step) ==
    [d EXCEPT !.step = step, !.calledUnavailable = TRUE,
              !.availableBefore = d.available, !.available = FALSE]

\* a continuation of the device that leaves state and availability alone
Stepped(d, step) ==
    [d EXCEPT !.step = step, !.calledUnavailable = FALSE, !.availableBefore = d.available]

\* 485: the errors after which pollStatus refreshes the session
NeedsRefresh(e) == e.kind \in {"TokenExpired", "SessionInvalid"}

----------------------------------------------------------------------------
(* What the operations pass to this.logger.log *)

\* error.message: the text an error was constructed with
Message(e) == IF e.kind = "Api" THEN "HTTP status" ELSE e.kind

\* a variant of LogLoginFailed that also logs the login request
LogLoginFailedWithRequest(c) ==
    {"Authentication failed:", "response.msg", "response", c.email, c.password}

\* 246
LogAuthenticate == {"Authenticating with Mammotion OAuth2..."}
\* 296: the vendor's message and the response body
LogLoginFailed(c) == {"Authentication failed:", "response.msg", "response"}
\* 310 or 312, then 319
LogLoginSucceeded(c, jwt) ==
    (IF jwt = "bad" THEN {"Failed to decode JWT:", "e.message"}
     ELSE {"IoT endpoint from JWT:", c.iotEndpoint})
    \cup {"Authentication successful, userId:", c.identityId}
\* 335
LogRefresh == {"Refreshing OAuth2 session..."}
\* 386
LogRefreshed == {"Session refreshed successfully"}
\* 390, 393 and, through authenticate, 246
LogRefreshFailed(c, e) ==
    {"Refresh failed:", Message(e)}
    \cup (IF CanReauthenticate(c)
          THEN {"Attempting full re-authentication..."} \cup LogAuthenticate
          ELSE {})
\* 464, 490, 505, 509
LogListDevices == {"Fetching device list from Mammotion API..."}
LogFound == {"Found device(s)"}
LogTryIot == {"No devices from domestic API, trying IoT endpoint..."}
LogIotFailed(e) == {"IoT endpoint failed:", Message(e)} \cup LogFound
\* 537
LogSendCommand(command) == {"Sending command to device", command, "iotId"}

\* what the catch block of _retry (197-223) lets its callees log
LogCaught(before, after, e) ==
    (IF after.refreshes > before.refreshes
        \/ after.result.origin = "refreshSession:no-refresh-token"
     THEN LogRefresh ELSE {})
    \cup (IF before.api = "listDevices" /\ before.stage = "iot" /\ after.pc = "returned"
          THEN LogIotFailed(e) ELSE {})

----------------------------------------------------------------------------
(* Actions: one per stretch of code between two suspension points *)

Finished(t) == t.pc \in {"idle", "returned", "raised"}

Fresh(op) == [IdleTask EXCEPT !.op = op]

\* what a run remembers when a failure of the wrapped call is caught
Remember(t, c, e) ==
    [t EXCEPT !.thrown = e,
              !.heldAtFail = Truthy(c.refreshToken),
              !.canReauth = CanReauthenticate(c),
              !.snap = Snapshot(t),
              !.cause = IF IsTokenExpiredError(e) THEN t.sent ELSE @]

\* what a run remembers of the sleep it has just begun, if it has
RememberSleep(t, before, e) ==
    IF t.pc = "sleep"
    THEN [t EXCEPT !.prevSleep = before.curSleep,
                   !.curSleep = [kind |-> e.kind, retryAfter |-> e.retryAfter,
                                 delay |-> t.timer, attempt |-> before.attempt]]
    ELSE t

\* the caller restores a persisted state into a newly constructed client
\* (initApi, base-mower-device 410-411); the persisted tokens were issued before
RestoreAuthState(layout) ==
    /\ client = NewClient
    /\ issued = 0
    /\ \A p \in Runs : task[p].pc = "idle"
    /\ client' = Restored(client, StoredState(layout))
    /\ issued' = 1
    /\ actor' = "caller"
    /\ logged' = {}
    /\ UNCHANGED <<device, signer, wire, driver>>
    /\ UNCHANGED task

\* authenticate(email, password) is called: 246-291
StartAuthenticate(p, cred) ==
    /\ Finished(task[p])
    /\ client' = AuthenticateClient(client, cred.email, cred.password)
    /\ task' = StoreLocals(task, p,
                  RememberRequest(BeginAuthenticate(Fresh("authenticate")), client'))
    /\ actor' = p
    /\ logged' = LogAuthenticate
    /\ UNCHANGED <<device, signer, wire, driver>>
    /\ UNCHANGED issued

\* refreshSession() is called by the owner of the client: 335-373
StartRefreshSession(p) ==
    /\ Finished(task[p])
    /\ task' = StoreLocals(task, p,
                  RememberRequest(
                      BeginRefresh([Fresh("refreshSession") EXCEPT
                                       !.canReauth = CanReauthenticate(client)], client),
                      client))
    /\ actor' = p
    /\ logged' = LogRefresh
    /\ UNCHANGED <<device, signer, wire, driver>>
    /\ UNCHANGED <<client, issued>>

\* _retry(fn) is called: 193-196
StartRetry(p) ==
    /\ Finished(task[p])
    /\ task' = StoreLocals(task, p, Invoke(Fresh("retry"), client))
    /\ actor' = p
    /\ logged' = {}
    /\ UNCHANGED <<device, signer, wire, driver>>
    /\ UNCHANGED <<client, issued>>

\* line 196: the wrapped call resolves
CallReturns(p) ==
    /\ task[p].pc = "call"
    /\ task[p].api # "listDevices"
    /\ task' = StoreLocals(task, p, Return(task[p], "ok"))
    /\ actor' = p
    /\ logged' = {}
    /\ UNCHANGED <<device, signer, wire, driver>>
    /\ UNCHANGED <<client, issued>>

\* lines 197-223: the wrapped call rejects with e
CallThrows(p, e) ==
    /\ task[p].pc = "call"
    /\ LET t == Remember(task[p], client, e)
       IN  task' = StoreLocals(task, p,
                      Settle(RememberRequest(
                          RememberSleep(HandleFailure(t, client, e), t, e), client)))
    /\ actor' = p
    /\ logged' = LogCaught(task[p], task'[p], e)
    /\ UNCHANGED <<device, signer, wire, driver>>
    /\ UNCHANGED <<client, issued>>

\* the timer of _sleep fires: 234, then 194
SleepDone(p) ==
    /\ task[p].pc = "sleep"
    /\ task' = StoreLocals(task, p, NextAttempt([task[p] EXCEPT !.timer = Null], client))
    /\ actor' = p
    /\ logged' = {}
    /\ UNCHANGED <<device, signer, wire, driver>>
    /\ UNCHANGED <<client, issued>>

\* 375-387: the refresh response carries an access token
RefreshResolves(p, rtShape, now, expiresIn) ==
    /\ task[p].pc = "refreshReq"
    /\ issued < MaxTokens
    /\ issued' = issued + 1
    /\ client' = RefreshedSession(client, issued + 1, rtShape, now, expiresIn)
    /\ task' = StoreLocals(task, p, Resume(task[p], client'))
    /\ actor' = p
    /\ logged' = LogRefreshed
    /\ UNCHANGED <<device, signer, wire, driver>>

\* 375, 399: the refresh response carries no access token
RefreshNoToken(p) ==
    /\ task[p].pc = "refreshReq"
    /\ task' = StoreLocals(task, p,
                  RefreshWithoutToken([task[p] EXCEPT !.canReauth = CanReauthenticate(client)],
                                      client))
    /\ actor' = p
    /\ logged' = {}
    /\ UNCHANGED <<device, signer, wire, driver>>
    /\ UNCHANGED <<client, issued>>

\* 389-397: the refresh request fails (non-2xx or transport failure)
RefreshRejects(p, e) ==
    /\ task[p].pc = "refreshReq"
    /\ LET t == RefreshRejected([task[p] EXCEPT !.canReauth = CanReauthenticate(client)],
                                client, e)
       IN  /\ client' = IF t.pc = "authReq"
                        THEN AuthenticateClient(client, client.email, client.password)
                        ELSE client
           /\ task' = StoreLocals(task, p,
                         IF t.pc = "authReq"
                         THEN RememberRequest([t EXCEPT !.reauthFor = t.cause], client')
                         ELSE t)
    /\ actor' = p
    /\ logged' = LogRefreshFailed(client, e)
    /\ UNCHANGED <<device, signer, wire, driver>>
    /\ UNCHANGED issued

\* 294-327: the token response carries an access token
AuthResolves(p, rtShape, now, expiresIn, jwt) ==
    /\ task[p].pc = "authReq"
    /\ issued < MaxTokens
    /\ issued' = issued + 1
    /\ client' = PopulateSession(client, issued + 1, rtShape, now, expiresIn, jwt)
    /\ task' = StoreLocals(task, p, Resume([task[p] EXCEPT !.jwt = jwt], client'))
    /\ actor' = p
    /\ logged' = LogLoginSucceeded(client', jwt)
    /\ UNCHANGED <<device, signer, wire, driver>>

\* 294-298: the token response carries no access token
AuthNoToken(p) ==
    /\ task[p].pc = "authReq"
    /\ task' = StoreLocals(task, p,
                  Raise(task[p], Error("Authentication", "authenticate:login-failed", Null)))
    /\ actor' = p
    /\ logged' = LogLoginFailed(client)
    /\ UNCHANGED <<device, signer, wire, driver>>
    /\ UNCHANGED <<client, issued>>

\* 288: the token request fails; the error leaves authenticate as it is
AuthRejects(p, e) ==
    /\ task[p].pc = "authReq"
    /\ task' = StoreLocals(task, p, Raise(task[p], e))
    /\ actor' = p
    /\ logged' = {}
    /\ UNCHANGED <<device, signer, wire, driver>>
    /\ UNCHANGED <<client, issued>>

\* a variant of isAuthenticated() that drops a token it finds expired
IsAuthenticatedCallClearing(p, now) ==
    /\ Finished(task[p])
    /\ task' = StoreLocals(task, p,
                  [task[p] EXCEPT !.checkedAt = now,
                                  !.authenticated = IsAuthenticated(client, now)])
    /\ client' = IF IsAuthenticated(client, now) THEN client
                 ELSE [client EXCEPT !.accessToken = Null, !.iotToken = Null]
    /\ actor' = p
    /\ logged' = {}
    /\ UNCHANGED <<issued, device, signer, wire, driver>>

\* isAuthenticated() is called by the caller of the last operation: 407-412
IsAuthenticatedCall(p, now) ==
    /\ Finished(task[p])
    /\ task' = StoreLocals(task, p,
                  [task[p] EXCEPT !.checkedAt = now,
                                  !.authenticated = IsAuthenticated(client, now)])
    /\ actor' = p
    /\ logged' = {}
    /\ UNCHANGED <<device, signer, wire, driver>>
    /\ UNCHANGED <<client, issued>>

\* the process restarts: the caller has stored getAuthState() (driver 153,
\* 196; base-mower-device 418, 488) and restores it into a newly constructed
\* client (base-mower-device 403-411)
RestartFromStore ==
    /\ Truthy(client.accessToken)
    /\ \A p \in Runs : Finished(task[p])
    /\ client' = Restored(NewClient, GetAuthState(client))
    /\ task' = [p \in Runs |-> IdleTask]
    /\ actor' = "restart"
    /\ logged' = {}
    /\ UNCHANGED <<device, signer, wire, driver>>
    /\ UNCHANGED issued

\* listDevices() is called: 464-481
StartListDevices(p) ==
    /\ Finished(task[p])
    /\ LET token == IF Truthy(client.accessToken) THEN client.accessToken
                    ELSE client.iotToken
       IN  task' = StoreLocals(task, p,
                      IF ~Truthy(token)
                      THEN Raise([Fresh("listDevices") EXCEPT !.api = "listDevices"],
                                 Error("Authentication", "listDevices:not-authenticated", Null))
                      ELSE Invoke([Fresh("retry") EXCEPT !.api = "listDevices",
                                                         !.stage = "primary",
                                                         !.bearer = token], client))
    /\ actor' = p
    /\ logged' = LogListDevices
    /\ UNCHANGED <<device, signer, wire, driver>>
    /\ UNCHANGED <<client, issued>>

\* 478-499: the primary listing call resolves with n devices
ListPrimaryReturns(p, n) ==
    /\ task[p].pc = "call"
    /\ task[p].api = "listDevices" /\ task[p].stage = "primary"
    /\ task' = StoreLocals(task, p, AfterPrimaryListing(task[p], client, n))
    /\ actor' = p
    /\ logged' = IF task'[p].stage = "iot" THEN LogTryIot ELSE LogFound
    /\ UNCHANGED <<device, signer, wire, driver>>
    /\ UNCHANGED <<client, issued>>

\* 492-510: the IoT-endpoint listing call resolves with n records
ListIotReturns(p, n) ==
    /\ task[p].pc = "call"
    /\ task[p].api = "listDevices" /\ task[p].stage = "iot"
    /\ task' = StoreLocals(task, p,
                  Return([task[p] EXCEPT !.devices = IF n > 0 THEN n ELSE @], "devices"))
    /\ actor' = p
    /\ logged' = LogFound
    /\ UNCHANGED <<device, signer, wire, driver>>
    /\ UNCHANGED <<client, issued>>

\* sendCommand(iotId, command, params) is called: 537-545
StartSendCommand(p, command) ==
    /\ Finished(task[p])
    /\ task' = StoreLocals(task, p,
                  Invoke([Fresh("retry") EXCEPT !.api = "sendCommand",
                                                !.command = command], client))
    /\ actor' = p
    /\ logged' = LogSendCommand(command)
    /\ UNCHANGED <<device, signer, wire, driver>>
    /\ UNCHANGED <<client, issued>>

\* generateApiSignature builds the string to sign for a path and an object
\* of parameters (84-86); here for the same entries inserted in two orders
SignBoth(path, params, reordered) ==
    /\ signer' = [ params |-> params, reordered |-> reordered,
                   canonical |-> StringToSign(path, params),
                   canonicalReordered |-> StringToSign(path, reordered) ]
    /\ actor' = "signer"
    /\ logged' = {}
    /\ UNCHANGED <<client, task, issued, device, wire, driver>>

\* 197-223 for the error e, with what the run remembers of it
Caught(t0, c, e) ==
    LET t == Remember(t0, c, e)
    IN  Settle(RememberRequest(RememberSleep(HandleFailure(t, c, e), t, e), c))

\* getDeviceStatus(iotId) is called: 518-524
StartGetDeviceStatus(p) ==
    /\ Finished(task[p])
    /\ task' = StoreLocals(task, p,
                  Invoke([Fresh("retry") EXCEPT !.api = "getDeviceStatus"], client))
    /\ actor' = p
    /\ logged' = {}
    /\ UNCHANGED <<client, issued, device, signer, wire, driver>>

\* 155-183: the response to a signed request arrives; it is returned, or the
\* error it stands for is thrown into the catch block of _retry
SignedResponds(p, response) ==
    /\ task[p].pc = "call"
    /\ task[p].api \in SignedApis
    /\ LET e == SignedOutcome(response)
           t == [task[p] EXCEPT !.response = response, !.answered = TRUE]
       IN  task' = StoreLocals(task, p,
                      IF e = NoError THEN Return(t, "ok") ELSE Caught(t, client, e))
    /\ actor' = p
    /\ logged' = LogCaught(task[p], task'[p], SignedOutcome(response))
    /\ UNCHANGED <<client, issued, device, signer, wire, driver>>

\* the refreshSession the device awaits: 417 (initApi) or 487 (pollStatus)
DeviceRefresh(api, c) ==
    RememberRequest(
        BeginRefresh([Fresh("refreshSession") EXCEPT
                         !.api = api, !.canReauth = CanReauthenticate(c)], c), c)

\* onInit / initApi, base-mower-device 380-431: a client is constructed, the
\* stored state restored; with a valid token the device is available and
\* polling starts, otherwise the session is refreshed first
InitApi(p, layout, now) ==
    /\ ~device.api
    /\ client = NewClient
    /\ issued = 0
    /\ \A q \in Runs : task[q].pc = "idle"
    /\ client' = Restored(client, StoredState(layout))
    /\ issued' = 1
    /\ LET t == DeviceRefresh("initApi", client')
       IN  IF IsAuthenticated(client', now)
           THEN /\ device' = StartPolling([Stepped(device, "init") EXCEPT
                                 !.api = TRUE, !.available = TRUE,
                                 !.store = StoredState(layout)])
                /\ logged' = {}
                /\ UNCHANGED task
           ELSE IF t.pc = "raised"
           THEN /\ device' = StartPolling([MarkedUnavailable(device, "init") EXCEPT
                                 !.api = TRUE, !.store = StoredState(layout)])
                /\ task' = StoreLocals(task, p, [t EXCEPT !.handled = TRUE])
                /\ logged' = {"Token expired, refreshing..."} \cup LogRefresh
           ELSE /\ device' = [Stepped(device, "init") EXCEPT
                                 !.api = TRUE, !.store = StoredState(layout)]
                /\ task' = StoreLocals(task, p, t)
                /\ logged' = {"Token expired, refreshing..."} \cup LogRefresh
    /\ actor' = p
    /\ UNCHANGED <<signer, wire, driver>>

\* the interval, or startPolling itself, calls pollStatus: 473-480
StartPoll(p) ==
    /\ device.api /\ device.polling
    /\ task[p].api \in {"initApi", "pollRefresh", "getDeviceStatus", "sendCommand"}
           => task[p].handled
    /\ StartGetDeviceStatus(p)

\* pollStatus resumes after getDeviceStatus: 480-498
PollSettles(p) ==
    /\ task[p].api = "getDeviceStatus"
    /\ task[p].pc \in {"returned", "raised"}
    /\ ~task[p].handled /\ ~task[p].updating
    /\ LET t == task[p]
           e == t.result
           r == DeviceRefresh("pollRefresh", client)
       IN  IF t.pc = "returned"
           THEN /\ device' = StatusWritten(device, t.response.data)
                /\ task' = StoreLocals(task, p,
                              [t EXCEPT !.updating = TRUE,
                                        !.previousState = device.lastState])
                /\ logged' = {}
           ELSE IF NeedsRefresh(e)
           THEN /\ device' = IF r.pc = "raised" THEN MarkedUnavailable(device, "pollAuth")
                              ELSE Stepped(device, "pollAuth")
                /\ task' = StoreLocals(task, p,
                              IF r.pc = "raised" THEN [r EXCEPT !.handled = TRUE] ELSE r)
                /\ logged' = {"Poll failed:", Message(e)} \cup LogRefresh
           ELSE /\ device' = IF e.kind = "DeviceOffline" THEN MarkedOffline(device, e)
                              ELSE Stepped(device, "pollOther")
                /\ task' = StoreLocals(task, p, [t EXCEPT !.handled = TRUE])
                /\ logged' = {"Poll failed:", Message(e)}
    /\ actor' = p
    /\ UNCHANGED <<client, issued, signer, wire, driver>>

\* updateStatus resumes after its capability writes, and pollStatus after
\* it: 548-562, 481
UpdateStatusEnds(p) ==
    /\ task[p].api = "getDeviceStatus"
    /\ task[p].updating
    /\ device' = StatusUpdated(device, task[p].response.data, task[p].previousState)
    /\ task' = StoreLocals(task, p,
                  [task[p] EXCEPT !.updating = FALSE, !.handled = TRUE,
                                  !.previousState = "none"])
    /\ actor' = p
    /\ logged' = {}
    /\ UNCHANGED <<client, issued, signer, wire, driver>>

\* the device resumes after the refreshSession it awaited: 418-426, 488-491
RefreshSettles(p) ==
    /\ task[p].api \in {"initApi", "pollRefresh"}
    /\ task[p].pc \in {"returned", "raised"}
    /\ ~task[p].handled
    /\ LET t == task[p]
           d == IF t.pc = "raised" THEN MarkedUnavailable(device, "refreshFailed")
                ELSE IF t.api = "initApi"
                     THEN [Stepped(device, "refreshOk") EXCEPT
                              !.available = TRUE, !.store = GetAuthState(client)]
                     ELSE [Stepped(device, "refreshOk") EXCEPT
                              !.store = GetAuthState(client)]
       IN  /\ device' = IF t.api = "initApi" THEN StartPolling(d) ELSE d
           /\ task' = StoreLocals(task, p, [t EXCEPT !.handled = TRUE])
           /\ logged' = IF t.pc = "raised"
                        THEN {"Failed to refresh session:", Message(t.result)} ELSE {}
    /\ actor' = p
    /\ UNCHANGED <<client, issued, signer, wire, driver>>

\* onDeleted, 718-721: stopPolling clears the poll interval (463-468)
OnDeleted ==
    /\ device.api /\ ~device.deleted
    /\ device' = [StopPolling(Stepped(device, "deleted")) EXCEPT
                     !.deleted = TRUE,
                     !.sleepingAtDelete = {p \in Runs : task[p].pc = "sleep"},
                     !.invokedAtDelete = [p \in Runs |-> task[p].invoked]]
    /\ actor' = "device"
    /\ logged' = {"Device deleted:", "name"}
    /\ UNCHANGED <<client, task, issued, signer, wire, driver>>

\* onSettings, 707-713: a changed pollInterval restarts the polling
OnSettings(pollIntervalChanged) ==
    /\ device.api /\ ~device.deleted
    /\ device' = IF pollIntervalChanged THEN StartPolling(Stepped(device, "settings"))
                 ELSE Stepped(device, "settings")
    /\ actor' = "device"
    /\ logged' = {"Settings changed:", "changedKeys"}
    /\ UNCHANGED <<client, task, issued, signer, wire, driver>>

\* onCapabilityOnOff, 625-636: the device sends the start or the stop command
OnCapabilityOnOff(p, value) ==
    /\ device.api
    /\ task[p].api \in {"initApi", "pollRefresh", "getDeviceStatus", "sendCommand"}
           => task[p].handled
    /\ StartSendCommand(p, IF value THEN "start_task" ELSE "stop_task")

\* onCapabilityOnOff resumes after the command: 636-644; after a command
\* that succeeded it polls the status
CommandSettles(p) ==
    /\ device.api
    /\ task[p].api = "sendCommand"
    /\ task[p].pc \in {"returned", "raised"}
    /\ ~task[p].handled
    /\ IF task[p].pc = "returned"
       THEN /\ task' = StoreLocals(task, p,
                          Invoke([Fresh("retry") EXCEPT !.api = "getDeviceStatus"], client))
            /\ logged' = {}
       ELSE /\ task' = StoreLocals(task, p, [task[p] EXCEPT !.handled = TRUE])
            /\ logged' = {"Command failed:", Message(task[p].result)}
    /\ actor' = p
    /\ UNCHANGED <<client, issued, device, signer, wire, driver>>

----------------------------------------------------------------------------
(* _request, lines 67-113: one HTTPS request and the result of its promise *)

\* response bodies that JSON.parse accepts, and bodies on which it throws
JsonTexts == {"{}", "{\"code\":200,\"data\":{}}", "{\"message\":\"denied\"}"}
OtherTexts == {"", "<html>", "Bad Gateway"}

\* what the wire brings: a response with status and body, or an error event
WireOutcomes ==
    { [kind |-> "response", statusCode |-> n, data |-> d, cause |-> NullStr] :
          n \in {199, 200, 204, 299, 300, 304, 401, 404, 429, 500},
          d \in JsonTexts \cup OtherTexts }
    \cup { [kind |-> "error", statusCode |-> 0, data |-> NullStr, cause |-> c] :
               c \in {"ENOTFOUND", "ECONNRESET", "ETIMEDOUT"} }

\* a value by its kind: the object JSON.parse made of a text, the text
\* itself, or nothing
Parsed(text) == [type |-> "json", of |-> text]
Raw(text) == [type |-> "text", of |-> text]
Nothing == [type |-> "none", of |-> NullStr]

\* 86: JSON.parse(data) returns, or throws into the catch at 92
JsonParses(text) == text \in JsonTexts

\* 87, 93: res.statusCode >= 200 && res.statusCode < 300
IsSuccessStatus(n) == n >= 200 /\ n < 300

Resolved(value) ==
    [ settled |-> "resolved", value |-> value, error |-> NoError,
      message |-> NullStr, details |-> Nothing ]
Rejected(e, message, details) ==
    [ settled |-> "rejected", value |-> Nothing, error |-> e,
      message |-> message, details |-> details ]

\* a variant that never parses the body of a failed request
RequestResultRawOnFailure(outcome) ==
    IF outcome.kind = "error"
    THEN Rejected(Error("Network", "fn", Null), outcome.cause, Raw(outcome.cause))
    ELSE IF IsSuccessStatus(outcome.statusCode)
         THEN Resolved(IF JsonParses(outcome.data) THEN Parsed(outcome.data)
                       ELSE Raw(outcome.data))
         ELSE Rejected(ApiErrorOf(outcome.statusCode), "HTTP status: data", Nothing)

\* 80-104: the promise resolves or rejects by the response or the error event
RequestResult(outcome) ==
    IF outcome.kind = "error"
    THEN Rejected(Error("Network", "fn", Null), outcome.cause, Raw(outcome.cause))
    ELSE IF JsonParses(outcome.data)
         THEN IF IsSuccessStatus(outcome.statusCode)
              THEN Resolved(Parsed(outcome.data))
              ELSE Rejected(ApiErrorOf(outcome.statusCode), "HTTP status",
                            Parsed(outcome.data))
         ELSE IF IsSuccessStatus(outcome.statusCode)
              THEN Resolved(Raw(outcome.data))
              ELSE Rejected(ApiErrorOf(outcome.statusCode), "HTTP status: data", Nothing)

\* _request(url, options): one https.request (80), the body written if there
\* is one (107-109), and the promise settled by what the wire brings
Request(method, hasBody, outcome) ==
    /\ wire' = [ requests |-> wire.requests + 1,
                 method |-> IF method # NullStr THEN method ELSE "GET",
                 written |-> hasBody,
                 outcome |-> outcome,
                 result |-> RequestResult(outcome) ]
    /\ actor' = "request"
    /\ logged' = {}
    /\ UNCHANGED <<client, task, issued, device, signer, driver>>

----------------------------------------------------------------------------
(* BaseDriver.isMatchingModel, base-driver 55-85; MODEL_PATTERNS, constants 81-92 *)

\* strings are sequences of characters
LUBA == <<"l", "u", "b", "a">>
MODEL_PATTERNS ==
    [ LUBA |->
        [ patterns |-> { LUBA, <<"L", "u", "b", "a", "A", "W", "D">> },
          excludePatterns |->
              { LUBA \o <<"2">>, LUBA \o <<"-", "2">>, LUBA \o <<" ", "2">>,
                LUBA \o <<" ", "m", "i", "n", "i">>, LUBA \o <<"m", "i", "n", "i">> } ],
      LUBA_2 |->
        [ patterns |->
              { LUBA \o <<"2">>, LUBA \o <<"-", "2">>, LUBA \o <<" ", "2">>,
                <<"L", "u", "b", "a", "2">>,
                LUBA \o <<" ", "m", "i", "n", "i">>, LUBA \o <<"m", "i", "n", "i">>,
                LUBA \o <<"-", "m", "i", "n", "i">> },
          excludePatterns |-> {} ],
      YUKA |->
        [ patterns |-> { <<"y", "u", "k", "a">> },
          excludePatterns |-> {} ] ]

\* String.prototype.toLowerCase, on the letters the records and patterns use
ToLowerCase(str) ==
    LET LowerCase(ch) ==
            CASE ch = "A" -> "a" [] ch = "D" -> "d" [] ch = "I" -> "i" [] ch = "K" -> "k"
              [] ch = "L" -> "l" [] ch = "M" -> "m" [] ch = "N" -> "n" [] ch = "U" -> "u"
              [] ch = "B" -> "b" [] ch = "W" -> "w" [] ch = "Y" -> "y" [] OTHER -> ch
    IN  [i \in 1..Len(str) |-> LowerCase(str[i])]

\* String.prototype.includes
Includes(str, pattern) ==
    \E i \in 0..(Len(str) - Len(pattern)) : SubSeq(str, i + 1, i + Len(pattern)) = pattern

\* device records of the listing: product name, name, product model, model
\* and category key, each possibly absent
DeviceRecords ==
    [ productName :
          { <<>>, <<"L", "u", "b", "a">>, <<"L", "u", "b", "a", " ", "2">>,
            <<"L", "u", "b", "a", "-", "M", "i", "n", "i">>,
            <<"L", "U", "B", "A", " ", "M", "I", "N", "I">>, <<"Y", "u", "k", "a">> },
      name : { <<>>, <<"L", "u", "b", "a", "A", "W", "D">> },
      productModel : { <<>>, <<"2">>, <<"m", "i", "n", "i">> },
      model : { <<>>, <<"l", "u", "b", "a", "2">> },
      categoryKey : { <<>>, <<"L", "u", "b", "a">> } ]

\* 63-66: the three parts lower-cased and joined by blanks; a || b takes b
\* when a is absent or the empty string
Combined(record) ==
    LET OrElse(a, b) == IF a # <<>> THEN a ELSE b
    IN  ToLowerCase(OrElse(record.productName, record.name)) \o <<" ">>
        \o ToLowerCase(OrElse(record.productModel, record.model)) \o <<" ">>
        \o ToLowerCase(record.categoryKey)

\* 55-85: no exclude pattern occurs and some pattern does
IsMatchingModel(modelType, record) ==
    LET patterns == MODEL_PATTERNS[modelType]
        combined == Combined(record)
    IN  /\ \A pattern \in patterns.excludePatterns :
               ~Includes(combined, ToLowerCase(pattern))
        /\ \E pattern \in patterns.patterns : Includes(combined, ToLowerCase(pattern))

\* the drivers are asked whether a record of the listing is theirs
MatchDevice(record) ==
    /\ driver' = [ asked |-> TRUE, record |-> record,
                   matches |-> [ t \in DOMAIN MODEL_PATTERNS |->
                                    IsMatchingModel(t, record) ] ]
    /\ actor' = "driver"
    /\ logged' = {}
    /\ UNCHANGED <<client, task, issued, device, signer, wire>>

----------------------------------------------------------------------------
(* Specifications *)

\* one operation at a time on the client, every outcome of every call
Next ==
    \/ \E layout \in Layouts : RestoreAuthState(layout)
    \/ \E p \in SeqRuns, cred \in Credentials : StartAuthenticate(p, cred)
    \/ \E p \in SeqRuns : StartRefreshSession(p)
    \/ \E p \in SeqRuns : StartRetry(p)
    \/ \E p \in SeqRuns : CallReturns(p)
    \/ \E p \in SeqRuns, e \in CallErrors : CallThrows(p, e)
    \/ \E p \in SeqRuns : SleepDone(p)
    \/ \E p \in SeqRuns, rt \in RefreshTokenShapes, now \in ClockValues,
          ex \in ExpiresInValues : RefreshResolves(p, rt, now, ex)
    \/ \E p \in SeqRuns : RefreshNoToken(p)
    \/ \E p \in SeqRuns, e \in RequestErrors("refreshReq") : RefreshRejects(p, e)
    \/ \E p \in SeqRuns, rt \in RefreshTokenShapes, now \in ClockValues,
          ex \in ExpiresInValues, jwt \in JwtShapes : AuthResolves(p, rt, now, ex, jwt)
    \/ \E p \in SeqRuns : AuthNoToken(p)
    \/ \E p \in SeqRuns, e \in RequestErrors("authReq") : AuthRejects(p, e)

Spec == Init /\ [][Next]_vars

\* two operations in flight on the same client, interleaved at their
\* suspension points: a login on the unauthenticated client, then _retry runs
\* whose calls, refreshes and re-authentications succeed or fail
NextConc ==
    \/ \E p \in Runs, cred \in Credentials :
          ~Truthy(client.accessToken) /\ StartAuthenticate(p, cred)
    \/ \E p \in Runs : StartRetry(p)
    \/ \E p \in Runs : CallReturns(p)
    \/ \E p \in Runs, e \in ConcCallErrors : CallThrows(p, e)
    \/ \E p \in Runs : SleepDone(p)
    \/ \E p \in Runs, now \in ClockValues, ex \in ExpiresInValues :
          issued < MaxConcTokens /\ RefreshResolves(p, "present", now, ex)
    \/ \E p \in Runs : RefreshRejects(p, Error("Network", "refreshReq", Null))
    \/ \E p \in Runs, now \in ClockValues, ex \in ExpiresInValues :
          issued < MaxConcTokens /\ AuthResolves(p, "present", now, ex, "iot")
    \/ \E p \in Runs : AuthRejects(p, Error("Network", "authReq", Null))

SpecConc == Init /\ [][NextConc]_vars

\* the session operations alone, one at a time: restore, login, refresh,
\* restart from the stored state, and the caller's isAuthenticated()
NextSession ==
    \/ \E layout \in Layouts : RestoreAuthState(layout)
    \/ RestartFromStore
    \/ \E p \in SeqRuns, cred \in Credentials : StartAuthenticate(p, cred)
    \/ \E p \in SeqRuns : StartRefreshSession(p)
    \/ \E p \in SeqRuns, rt \in RefreshTokenShapes, now \in ClockValues,
          ex \in ExpiresInValues : RefreshResolves(p, rt, now, ex)
    \/ \E p \in SeqRuns : RefreshNoToken(p)
    \/ \E p \in SeqRuns, e \in RequestErrors("refreshReq") : RefreshRejects(p, e)
    \/ \E p \in SeqRuns, rt \in RefreshTokenShapes, now \in ClockValues,
          ex \in ExpiresInValues, jwt \in JwtShapes : AuthResolves(p, rt, now, ex, jwt)
    \/ \E p \in SeqRuns : AuthNoToken(p)
    \/ \E p \in SeqRuns, e \in RequestErrors("authReq") : AuthRejects(p, e)
    \/ \E p \in SeqRuns, now \in NowValues : IsAuthenticatedCall(p, now)

SpecSession == Init /\ [][NextSession]_vars

\* the device operations, one at a time, on a client that has logged in:
\* listDevices and sendCommand, each call succeeding or failing
NextDevice ==
    \/ \E p \in SeqRuns, cred \in Credentials :
          ~Truthy(client.accessToken) /\ StartAuthenticate(p, cred)
    \/ \E p \in SeqRuns, rt \in RefreshTokenShapes, now \in ClockValues,
          ex \in ExpiresInValues, jwt \in JwtShapes :
          issued < MaxConcTokens /\ AuthResolves(p, rt, now, ex, jwt)
    \/ \E p \in SeqRuns : AuthRejects(p, Error("Network", "authReq", Null))
    \/ \E p \in SeqRuns : StartListDevices(p)
    \/ \E p \in SeqRuns, n \in DeviceCounts : ListPrimaryReturns(p, n)
    \/ \E p \in SeqRuns, n \in DeviceCounts : ListIotReturns(p, n)
    \/ \E p \in SeqRuns, command \in CommandInputs : StartSendCommand(p, command)
    \/ \E p \in SeqRuns : CallReturns(p)
    \/ \E p \in SeqRuns, e \in RequestErrors("fn") :
          task[p].api = "listDevices" /\ CallThrows(p, e)
    \/ \E p \in SeqRuns, e \in CommandErrors :
          task[p].api = "sendCommand" /\ CallThrows(p, e)
    \/ \E p \in SeqRuns : SleepDone(p)
    \/ \E p \in SeqRuns, now \in ClockValues, ex \in ExpiresInValues :
          issued < MaxConcTokens /\ RefreshResolves(p, "present", now, ex)
    \/ \E p \in SeqRuns : RefreshRejects(p, Error("Network", "refreshReq", Null))
    \/ \E p \in SeqRuns : StartGetDeviceStatus(p)
    \/ \E p \in SeqRuns, response \in PollResponses :
          task[p].api = "getDeviceStatus" /\ SignedResponds(p, response)
    \/ \E p \in SeqRuns, now \in NowValues : IsAuthenticatedCall(p, now)
    \/ RestartFromStore

SpecDevice == Init /\ [][NextDevice]_vars

\* the device: it restores its client, polls the status through
\* getDeviceStatus one poll at a time, reacts to what the poll brought, and
\* may be deleted at any moment
NextPoll ==
    \/ \E p \in SeqRuns, layout \in Layouts, now \in NowValues : InitApi(p, layout, now)
    \/ \E p \in SeqRuns : StartPoll(p)
    \/ \E p \in SeqRuns, response \in PollResponses : SignedResponds(p, response)
    \/ \E p \in SeqRuns : CallThrows(p, ApiErrorOf(UNAUTHORIZED))
    \/ \E p \in SeqRuns : SleepDone(p)
    \/ \E p \in SeqRuns, now \in ClockValues, ex \in ExpiresInValues :
          issued < MaxConcTokens /\ RefreshResolves(p, "present", now, ex)
    \/ \E p \in SeqRuns : RefreshNoToken(p)
    \/ \E p \in SeqRuns : RefreshRejects(p, Error("Network", "refreshReq", Null))
    \/ \E p \in SeqRuns : PollSettles(p)
    \/ \E p \in SeqRuns : UpdateStatusEnds(p)
    \/ \E p \in SeqRuns : RefreshSettles(p)
    \/ \E pollIntervalChanged \in BOOLEAN : OnSettings(pollIntervalChanged)
    \/ OnDeleted

SpecPoll == Init /\ [][NextPoll]_vars

\* the device polling a status: every response body _signedRequest may
\* get, every status payload updateStatus may be given
NextStatus ==
    \/ \E p \in SeqRuns, layout \in Layouts, now \in NowValues : InitApi(p, layout, now)
    \/ \E p \in SeqRuns : StartPoll(p)
    \/ \E p \in SeqRuns, response \in StatusResponses : SignedResponds(p, response)
    \/ \E p \in SeqRuns : SleepDone(p)
    \/ \E p \in SeqRuns : RefreshRejects(p, Error("Network", "refreshReq", Null))
    \/ \E p \in SeqRuns : PollSettles(p)
    \/ \E p \in SeqRuns : UpdateStatusEnds(p)
    \/ \E p \in SeqRuns : RefreshSettles(p)

SpecStatus == Init /\ [][NextStatus]_vars

\* the signed operations of a restored client, one at a time, every
\* response code
NextSigned ==
    \/ \E layout \in Layouts : RestoreAuthState(layout)
    \/ \E p \in SeqRuns : StartGetDeviceStatus(p)
    \/ \E p \in SeqRuns, command \in COMMANDS : StartSendCommand(p, command)
    \/ \E p \in SeqRuns, response \in CodeResponses : SignedResponds(p, response)
    \/ \E p \in SeqRuns : SleepDone(p)
    \/ \E p \in SeqRuns, now \in ClockValues, ex \in ExpiresInValues :
          issued < MaxConcTokens /\ RefreshResolves(p, "present", now, ex)
    \/ \E p \in SeqRuns : RefreshRejects(p, Error("Network", "refreshReq", Null))

SpecSigned == Init /\ [][NextSigned]_vars

\* the statuses of a mower that idles, mows, charges or fails
FlowResponses == { Response(FALSE, 0, Status(TRUE, w, FALSE, 0)) : w \in {0, 1, 2, 5} }

\* the device polling on its interval while the onoff capability is set: the
\* poll that follows a command may overlap an interval poll
NextFlows ==
    \/ \E p \in SeqRuns : InitApi(p, "current", 2000)
    \/ \E p \in SeqRuns : StartPoll(p)
    \/ \E p \in Runs \ SeqRuns, value \in BOOLEAN : OnCapabilityOnOff(p, value)
    \/ \E p \in Runs \ SeqRuns : CommandSettles(p)
    \/ \E p \in Runs, response \in FlowResponses : SignedResponds(p, response)
    \/ \E p \in Runs : PollSettles(p)
    \/ \E p \in Runs : UpdateStatusEnds(p)

SpecFlows == Init /\ [][NextFlows]_vars

\* two device operations in flight on one client that has logged in: a
\* listing and a status request, the status request refreshing the session
NextShared ==
    \/ \E p \in SeqRuns, cred \in Credentials :
          ~Truthy(client.accessToken) /\ StartAuthenticate(p, cred)
    \/ \E p \in Runs, now \in ClockValues, ex \in ExpiresInValues :
          issued < MaxConcTokens /\ AuthResolves(p, "present", now, ex, "iot")
    \/ \E p \in SeqRuns : StartListDevices(p)
    \/ \E p \in Runs, n \in DeviceCounts : ListPrimaryReturns(p, n)
    \/ \E p \in Runs, n \in DeviceCounts : ListIotReturns(p, n)
    \/ \E p \in Runs :
          task[p].api = "listDevices" /\ CallThrows(p, Error("Network", "fn", Null))
    \/ \E p \in Runs \ SeqRuns : StartGetDeviceStatus(p)
    \/ \E p \in Runs, response \in PollResponses : SignedResponds(p, response)
    \/ \E p \in Runs : SleepDone(p)
    \/ \E p \in Runs, now \in ClockValues, ex \in ExpiresInValues :
          issued < MaxConcTokens /\ RefreshResolves(p, "present", now, ex)
    \/ \E p \in Runs : RefreshRejects(p, Error("Network", "refreshReq", Null))

SpecShared == Init /\ [][NextShared]_vars

\* _request alone: one call with every option and every wire outcome
NextRequest ==
    \E method \in {NullStr, "GET", "POST"}, hasBody \in BOOLEAN, outcome \in WireOutcomes :
        wire = NoWire /\ Request(method, hasBody, outcome)

SpecRequest == Init /\ [][NextRequest]_vars

\* the drivers alone: one device record of the listing
NextDriver ==
    \E record \in DeviceRecords : driver = NoDriver /\ MatchDevice(record)

SpecDriver == Init /\ [][NextDriver]_vars

\* the signer alone: one signing of every object of parameters in every two
\* insertion orders
NextSigner ==
    \E m \in ParamMappings :
        \E params \in Orderings(Entries(m)), reordered \in Orderings(Entries(m)) :
            signer = NewSigner /\ SignBoth("/thing/properties/get", params, reordered)

SpecSigner == Init /\ [][NextSigner]_vars

----------------------------------------------------------------------------
(* Properties of _retry *)

RetryRun(p) == task[p].op = "retry"

InFlight(t) == t.pc \in {"call", "sleep", "refreshReq", "authReq"}

\* errors constructed by refreshSession or by the authenticate it falls back to
RefreshOrigins == {"refreshSession:no-refresh-token", "refreshSession:no-access-token",
                   "refreshReq", "authReq", "authenticate:login-failed"}

Max(a, b) == IF a > b THEN a ELSE b

\* the base of a remembered rate-limit sleep
SleepBase(s) == IF s.retryAfter # Null THEN s.retryAfter ELSE RETRY_DELAY

C2_TerminalAuthenticationErrors ==
    \A p \in Runs :
        LET t == task[p]
        IN  (RetryRun(p) /\ IsAuthenticationError(t.thrown)
                /\ ~IsTokenExpiredError(t.thrown)) =>
                /\ t.pc = "raised"
                /\ t.result = t.thrown
                /\ Snapshot(t) = t.snap
                /\ t.timer = Null

\* a session-invalid failure on a later attempt, raised at once
C2_Witness ==
    \E p \in Runs :
        /\ RetryRun(p) /\ task[p].pc = "raised"
        /\ task[p].thrown.kind = "SessionInvalid"
        /\ task[p].result = task[p].thrown
        /\ task[p].snap.attempt = 2

C4_ExponentialBackoff ==
    \A p \in Runs :
        LET t == task[p]
            a == t.snap.attempt
        IN  (RetryRun(p) /\ t.thrown.kind \in {"Api", "Network", "DeviceOffline"}) =>
                IF a < MAX_RETRIES
                THEN /\ t.sleeps = t.snap.sleeps + 1
                     /\ t.curSleep.delay = RETRY_DELAY * RETRY_MULTIPLIER ^ a
                     /\ t.curSleep.delay \in {1000, 2000, 4000}
                     /\ t.pc \in {"sleep", "call", "returned"}
                     /\ (t.pc = "sleep" => t.timer = t.curSleep.delay /\ t.attempt = a)
                     /\ (t.pc # "sleep" =>
                            t.invoked = t.snap.invoked + 1 /\ t.attempt = a + 1)
                ELSE /\ t.sleeps = t.snap.sleeps
                     /\ t.timer = Null
                     /\ t.pc = "raised"

\* three backoff sleeps, the last of 4000 ms, then a failure on attempt
\* MAX_RETRIES that ends the run without a fourth sleep
C4_Witness ==
    \E p \in Runs :
        /\ RetryRun(p) /\ task[p].pc = "raised"
        /\ task[p].thrown.kind = "Api" /\ task[p].snap.attempt = MAX_RETRIES
        /\ task[p].sleeps = 3 /\ task[p].curSleep.delay = 4000
        /\ task[p].curSleep.kind = "Network"

\* C5 as stated: when all MAX_RETRIES + 1 invocations have failed, _retry
\* raises the error thrown by the last of them.
C5_RaisesFinalInvocationError ==
    \A p \in Runs :
        LET t == task[p]
        IN  (RetryRun(p) /\ t.pc = "raised" /\ t.invoked = MAX_RETRIES + 1) =>
                t.result = t.thrown

\* C5 amended: a _retry run that raises raises exactly the error thrown by
\* its last invocation, unless that error was a TokenExpired caught with a
\* refresh token held and the refreshSession() it started raised: then the
\* error of refreshSession is raised instead.
C5_RaisesFinalErrorOrRefreshError ==
    \A p \in Runs :
        LET t == task[p]
        IN  (RetryRun(p) /\ t.pc = "raised") =>
                /\ \/ t.result = t.thrown
                   \/ /\ IsTokenExpiredError(t.thrown) /\ t.heldAtFail
                      /\ t.refreshes = t.snap.refreshes + 1
                      /\ t.result.origin \in RefreshOrigins
                /\ (t.result.origin = "fn" => t.result = t.thrown)

\* four failed invocations of different kinds; the last error is raised
C5_Witness ==
    \E p \in Runs :
        /\ RetryRun(p) /\ task[p].pc = "raised" /\ task[p].invoked = MAX_RETRIES + 1
        /\ task[p].thrown.kind = "RateLimit" /\ task[p].result = task[p].thrown
        /\ task[p].prevSleep.kind = "Network"

\* C6: a _retry run invokes the wrapped call at most MAX_RETRIES + 1 times and
\* calls refreshSession at most MAX_RETRIES + 1 times, whatever the outcomes;
\* while it is in flight it has invoked the call attempt + 1 times with
\* attempt <= MAX_RETRIES and some step of it can be taken, and once attempt
\* passes MAX_RETRIES it has raised.
C6_BoundedRetry ==
    \A p \in Runs :
        LET t == task[p]
        IN  RetryRun(p) =>
                /\ t.invoked <= MAX_RETRIES + 1
                /\ t.refreshes <= MAX_RETRIES + 1
                /\ t.refreshes <= t.invoked
                /\ t.attempt <= MAX_RETRIES + 1
                /\ (InFlight(t) =>
                       t.attempt <= MAX_RETRIES /\ t.invoked = t.attempt + 1 /\ ENABLED Next)
                /\ (t.attempt = MAX_RETRIES + 1 => t.pc = "raised")

\* four TokenExpired failures, four refreshes, then the run raises
C6_Witness ==
    \E p \in Runs :
        /\ RetryRun(p) /\ task[p].pc = "raised"
        /\ task[p].invoked = MAX_RETRIES + 1 /\ task[p].refreshes = MAX_RETRIES + 1

\* two rate-limit sleeps of consecutive attempts of a run
ConsecutiveRateLimitSleeps(t) ==
    /\ t.curSleep.kind = "RateLimit" /\ t.prevSleep.kind = "RateLimit"
    /\ t.curSleep.attempt = t.prevSleep.attempt + 1

C8_OneReauthenticationPerExpiry ==
    \A p, q \in Runs :
        (p # q /\ RetryRun(p) /\ RetryRun(q) /\ task[p].reauthFor # Null) =>
            task[p].reauthFor # task[q].reauthFor

\* C9: the retry state of a run is its own: its attempt counter counts its
\* own invocations, lastError is the error its own call threw last, a pending
\* timer is the delay computed from its own error and attempt, and what it
\* raises is its own last error or the error of the refresh it started,
\* whatever another run in flight on the client does.
C9_RetryStateIsPerRun ==
    \A p \in Runs :
        LET t == task[p]
        IN  RetryRun(p) =>
                /\ t.lastError = t.thrown
                /\ t.attempt \in {t.snap.attempt, t.snap.attempt + 1}
                /\ (InFlight(t) => t.invoked = t.attempt + 1)
                /\ (t.pc = "sleep" =>
                       /\ t.attempt = t.snap.attempt
                       /\ t.timer = (IF IsRateLimitError(t.thrown)
                                         /\ t.thrown.retryAfter # Null
                                      THEN t.thrown.retryAfter ELSE RETRY_DELAY)
                                         * RETRY_MULTIPLIER ^ t.attempt)
                /\ (t.pc = "raised" =>
                       t.result = t.thrown \/ t.result.origin \in RefreshOrigins)

\* two runs in flight at different attempts with different last errors
C9_Witness ==
    \E p, q \in Runs :
        /\ RetryRun(p) /\ RetryRun(q)
        /\ task[p].pc = "sleep" /\ task[q].pc = "refreshReq"
        /\ task[p].attempt = 2 /\ task[q].attempt = 1
        /\ task[p].lastError.kind = "Network" /\ task[q].lastError.kind = "TokenExpired"

\* C10 as stated: with credentials cached, refreshSession never fails for
\* want of a refresh token or of an access token in the refresh response: it
\* falls back to authenticate.
C10_RefreshFallsBackToAuthenticate ==
    \A p \in Runs :
        LET t == task[p]
        IN  (t.pc = "raised"
                /\ t.result.origin \in {"refreshSession:no-refresh-token",
                                        "refreshSession:no-access-token"}) =>
                ~t.canReauth

----------------------------------------------------------------------------
(* Properties of the session operations *)

\* the caller of p has just asked isAuthenticated()
JustChecked(p) == actor = p /\ task[p].checkedAt # Null

\* errors with which the authenticate called by refreshSession fails
FallbackOrigins == {"authReq", "authenticate:login-failed"}

\* C11: within one refreshSession() call the refresh request is sent at most
\* once and authenticate is invoked at most once, and only after the refresh
\* request; when that authenticate fails the call ends with the error of
\* authenticate, with no further refresh or authenticate attempt.
C11_RefreshFallbackNeverLoops ==
    \A p \in Runs :
        LET t == task[p]
        IN  /\ (t.op = "refreshSession" =>
                   /\ t.refreshes <= 1
                   /\ t.auths <= 1
                   /\ t.auths <= t.refreshes
                   /\ (t.auths = 1 => t.pc \in {"authReq", "returned", "raised"})
                   /\ (t.auths = 1 /\ t.pc = "raised" =>
                          t.result.origin \in FallbackOrigins))
            /\ (t.op = "retry" => t.auths <= t.refreshes)
            /\ (t.op \in {"refreshSession", "retry"}
                    /\ t.result.origin \in FallbackOrigins => t.pc = "raised")

\* a refresh request rejected, then the fallback login fails too
C11_Witness ==
    \E p \in Runs :
        /\ task[p].op = "refreshSession" /\ task[p].pc = "raised"
        /\ task[p].refreshes = 1 /\ task[p].auths = 1
        /\ task[p].result.origin = "authenticate:login-failed"

\* C12 as stated: after an unrecoverable refresh failure (the refresh request
\* fails with no credentials cached, or the fallback authenticate fails too)
\* the session is unauthenticated: isAuthenticated() answers false.
C12_UnrecoverableRefreshFailureUnauthenticates ==
    \A p \in Runs :
        LET t == task[p]
        IN  (JustChecked(p) /\ t.op = "refreshSession" /\ t.pc = "raised"
                /\ \/ t.result.origin = "refreshReq" /\ ~t.canReauth
                   \/ t.result.origin \in FallbackOrigins) =>
                ~t.authenticated

\* C13 as stated: authenticate sends one token request and never retries;
\* every failed login raises an AuthenticationError built from the vendor's
\* message and code.
C13_LoginFailureRaisesAuthenticationError ==
    \A p \in Runs :
        LET t == task[p]
        IN  t.op = "authenticate" =>
                /\ t.auths = 1
                /\ t.refreshes = 0
                /\ (t.pc = "raised" =>
                       /\ IsAuthenticationError(t.result)
                       /\ t.result.origin = "authenticate:login-failed")

\* C14: isAuthenticated() answers true exactly when a token is present and
\* the token expiry is strictly greater than now + 300000 ms; with the expiry
\* within five minutes of now, or past, it answers false.
C14_IsAuthenticatedBuffer ==
    \A p \in Runs :
        JustChecked(p) =>
            LET present == client.accessToken # Null \/ client.iotToken # Null
                expiry == IF client.tokenExpiry # Null THEN client.tokenExpiry
                          ELSE client.iotTokenExpiry
            IN  task[p].authenticated = (present /\ expiry > task[p].checkedAt + 300000)

\* a token is held and its expiry is exactly now + 5 minutes: the answer is false
C14_Witness ==
    \E p \in Runs :
        /\ JustChecked(p)
        /\ client.accessToken # Null
        /\ client.tokenExpiry = task[p].checkedAt + 300000
        /\ ~task[p].authenticated

SessionFullyPopulated(c) ==
    /\ c.accessToken # Null /\ c.refreshToken # Null
    /\ c.tokenExpiry # Null /\ c.identityId # NullStr
    /\ c.iotToken = c.accessToken /\ c.iotTokenExpiry = c.tokenExpiry

SessionFullyAbsent(c) ==
    /\ c.accessToken = Null /\ c.refreshToken = Null
    /\ c.tokenExpiry = Null /\ c.identityId = NullStr

\* C15 as stated: in every state, between operations and at every suspension
\* point, the session is fully populated (access token, refresh token, expiry
\* and identity id present, the aliases consistent) or fully absent.
C15_SessionFullOrAbsent ==
    SessionFullyPopulated(client) \/ SessionFullyAbsent(client)

\* C16: restoring the exported state of a client that holds a session into a
\* new client reproduces the access token, refresh token, expiry, identity
\* id, endpoint hint, region and client id, and the restored client exports
\* the same state again.
C16_RestoreOfExportRoundTrip ==
    [][actor' = "restart" =>
          /\ client'.accessToken = client.accessToken
          /\ client'.refreshToken = client.refreshToken
          /\ client'.tokenExpiry = client.tokenExpiry
          /\ client'.identityId = client.identityId
          /\ client'.iotEndpoint = client.iotEndpoint
          /\ client'.region = client.region
          /\ client'.clientId = client.clientId
          /\ GetAuthState(client') = GetAuthState(client)]_vars

\* a session with refresh token and endpoint hint, obtained by a login after
\* the first, has been exported and restored
C16_Witness ==
    /\ actor = "restart"
    /\ client.accessToken > 1 /\ client.refreshToken # Null
    /\ client.iotEndpoint # NullStr /\ client.clientId # NullStr

\* C17: once authenticate or restoreAuthState has acted on the client the
\* exported client id is never blank, and every token request sent (login or
\* refresh) carries a non-blank Client-Id.
C17_ClientIdNeverBlank ==
    /\ (client # NewClient => GetAuthState(client).clientId # NullStr)
    /\ \A p \in Runs :
           (task[p].auths + task[p].refreshes > 0) => task[p].header # NullStr

\* a legacy state without client id was restored, and a refresh-less login
\* request then carried the regenerated id
C17_Witness ==
    \E p \in Runs :
        /\ task[p].op = "authenticate" /\ task[p].pc = "authReq"
        /\ task[p].header = "cid:generated"
        /\ client.accessToken = 1 /\ client.refreshToken = Null
        /\ client.identityId = "uid"

\* C18 as stated: when authenticate succeeds with an access token whose
\* second segment does not decode, the IoT endpoint is unset afterwards.
C18_UndecodableTokenUnsetsEndpoint ==
    \A p \in Runs :
        LET t == task[p]
        IN  (actor = p /\ t.op = "authenticate" /\ t.pc = "returned" /\ t.jwt = "bad") =>
                client.iotEndpoint = NullStr

----------------------------------------------------------------------------
(* Properties of the device operations *)

\* C19: listDevices invokes the primary listing first; it invokes the IoT
\* endpoint listing only after the primary listing resolved with zero devices
\* while an endpoint hint was set, and then always; it returns the devices
\* found, an empty list when none was found or the IoT listing failed, and it
\* raises only when no token is held or the primary listing itself failed.
C19_ListDevicesFallback ==
    \A p \in Runs :
        LET t == task[p]
        IN  t.api = "listDevices" =>
                /\ (t.stage = "iot" =>
                       t.primaryInvoked >= 1 /\ t.primaryDevices = 0 /\ t.hint)
                /\ (t.stage = "primary" /\ t.pc = "returned" =>
                       /\ t.primaryInvoked >= 1
                       /\ t.primaryDevices > 0 \/ ~t.hint
                       /\ t.devices = t.primaryDevices)
                /\ (t.pc = "returned" => t.value = "devices" /\ t.devices >= 0)
                /\ (t.pc = "raised" =>
                       \/ t.op = "listDevices" /\ t.invoked = 0
                             /\ t.result.origin = "listDevices:not-authenticated"
                       \/ t.stage = "primary" /\ t.primaryInvoked = 0
                             /\ t.result = t.thrown /\ t.result.origin = "fn")

\* the primary listing was empty, an endpoint hint was set, and every IoT
\* listing call failed: an empty list is returned
C19_Witness ==
    \E p \in Runs :
        /\ task[p].api = "listDevices" /\ task[p].pc = "returned"
        /\ task[p].stage = "iot" /\ task[p].invoked = MAX_RETRIES + 1
        /\ task[p].lastError.kind = "Network" /\ task[p].devices = 0

\* C20 as stated: a command outside COMMANDS is raised without any signed
\* request and without any retry; a command in COMMANDS is invoked through
\* _retry.
C20_OnlyKnownCommandsAreSent ==
    \A p \in Runs :
        LET t == task[p]
        IN  t.api = "sendCommand" =>
                IF t.command \in COMMANDS
                THEN t.op = "retry" /\ t.invoked >= 1
                ELSE t.pc = "raised" /\ t.invoked = 0 /\ t.sleeps = 0


----------------------------------------------------------------------------
(* Status normalization, offline state, signed requests *)

\* the table of states by workState and chargeState, as the specification
\* states it
StateTable(status) ==
    IF status.hasWorkState
    THEN IF status.workState = 1 THEN "mowing"
         ELSE IF status.workState = 2 THEN "charging"
         ELSE IF status.workState = 3 THEN "returning"
         ELSE IF status.workState = 4 THEN "paused"
         ELSE IF status.workState = 5 THEN "error"
         ELSE "idle"
    ELSE IF status.hasChargeState /\ status.chargeState = 1 THEN "charging"
    ELSE "idle"

\* C21: the state a status payload shows is a function of the payload alone:
\* workState 1..5 give Mowing, Charging, Returning, Paused, Error, every other
\* workState gives Idle; without workState, chargeState 1 gives Charging and
\* anything else Idle
C21_StatusNormalization ==
    device.lastWrite = "status" =>
        /\ device.mower_state = StateTable(device.lastStatus)
        /\ device.mower_state \in MOWER_STATES \ {"offline"}

\* a payload without workState and with chargeState 1 was shown as Charging
C21_Witness ==
    /\ device.lastWrite = "status"
    /\ ~device.lastStatus.hasWorkState
    /\ device.lastStatus.hasChargeState /\ device.lastStatus.chargeState = 1
    /\ device.mower_state = "charging"

\* C22: the device shows Offline only after a poll that failed with
\* DeviceOfflineError; no status payload normalizes to Offline
C22_OfflineOnlyFromDeviceOfflineError ==
    /\ device.mower_state = "offline" =>
           /\ device.lastWrite = "deviceOffline"
           /\ device.lastError.kind = "DeviceOffline"
    /\ device.lastWrite = "status" =>
           /\ device.mower_state # "offline"
           /\ device.lastState # "offline"

\* a device that had shown a status shows Offline after an offline poll
C22_Witness ==
    /\ device.mower_state = "offline"
    /\ device.lastWrite = "deviceOffline"
    /\ device.lastState # "none"

\* C23: a poll that fails with DeviceOfflineError (vendor code 6205) sets the
\* state to Offline, does not call setUnavailable, and leaves availability
\* as it was
C23_OfflinePollKeepsAvailability ==
    device.step = "pollOffline" =>
        /\ device.mower_state = "offline"
        /\ device.lastError.kind = "DeviceOffline"
        /\ device.lastError.code = DEVICE_OFFLINE
        /\ ~device.calledUnavailable
        /\ device.available = device.availableBefore

\* an available device stayed available through an offline poll
C23_Witness ==
    /\ device.step = "pollOffline"
    /\ device.mower_state = "offline"
    /\ device.available /\ device.availableBefore

\* the status codes the specification calls authentication codes
AuthenticationCodes == {UNAUTHORIZED, TOKEN_EXPIRED, SESSION_INVALID}

\* C24: an ApiError that carries an authentication code (401, 460, 2401) is
\* not backed off and retried by _retry (violated)
C24_AuthCodeApiErrorNotRetried ==
    \A p \in Runs :
        ( /\ RetryRun(p)
          /\ task[p].thrown.kind = "Api"
          /\ task[p].thrown.code \in AuthenticationCodes )
        => task[p].pc # "sleep"

\* C25: every transmission of a signed request is signed anew: one nonce per
\* transmission, no nonce used twice, and the token signed is the one the
\* client holds when the request is sent
C25_EveryTransmissionSignedAnew ==
    \A p \in Runs :
        task[p].api \in SignedApis =>
            /\ Len(task[p].nonces) = task[p].invoked
            /\ Len(task[p].tokens) = task[p].invoked
            /\ \A i, j \in 1..Len(task[p].nonces) :
                   i # j => task[p].nonces[i] # task[p].nonces[j]
            /\ task[p].pc = "call" =>
                   task[p].tokens[Len(task[p].tokens)] = client.iotToken

\* a status request was sent again after a refresh, with another token
C25_Witness ==
    \E p \in Runs :
        /\ task[p].api = "getDeviceStatus"
        /\ task[p].invoked >= 2
        /\ task[p].refreshes >= 1
        /\ task[p].tokens[1] # task[p].tokens[Len(task[p].tokens)]
        /\ task[p].nonces[1] # task[p].nonces[Len(task[p].nonces)]

\* C26: the string to sign is the same for every insertion order of the
\* same parameters
C26_CanonicalStringOrderIndependent ==
    /\ signer.canonical = signer.canonicalReordered
    /\ \A i, j \in 1..Len(signer.params) :
           i < j /\ Rank(signer.params[i][1]) < Rank(signer.params[j][1])
           => \E a, b \in 1..Len(signer.canonical) :
                  /\ a < b
                  /\ signer.canonical[a] = signer.params[i][1]
                  /\ signer.canonical[b] = signer.params[j][1]

\* three parameters inserted in two different orders, neither the sorted one
C26_Witness ==
    /\ Len(signer.params) = 3
    /\ signer.params # signer.reordered
    /\ Rank(signer.params[1][1]) > Rank(signer.params[2][1])
    /\ Rank(signer.reordered[2][1]) > Rank(signer.reordered[3][1])
    /\ signer.canonical = signer.canonicalReordered

\* C27: after onDeleted a run that was in a backoff sleep sends no further
\* request (violated)
C27_NoRequestAfterDeleted ==
    device.deleted =>
        \A p \in device.sleepingAtDelete :
            task[p].invoked = device.invokedAtDelete[p]

\* the outcome the specification gives a response body
StatedOutcomeKind(response) ==
    IF ~response.hasCode \/ response.code = 200 THEN "none"
    ELSE IF response.code = 460 THEN "TokenExpired"
    ELSE IF response.code = 2401 THEN "SessionInvalid"
    ELSE IF response.code = 429 THEN "RateLimit"
    ELSE IF response.code = 6205 THEN "DeviceOffline"
    ELSE "Api"

\* what _signedRequest did with the response the run last received
ClassifiedAs(t, kind) ==
    IF kind = "none" THEN t.pc = "returned" /\ t.value = "ok"
    ELSE /\ t.thrown.kind = kind
         /\ t.thrown.code = t.response.code
         /\ t.thrown.origin = "fn"
         /\ t.pc # "returned"

\* a run whose last signed request has been answered and not yet sent again
JustAnswered(p) == task[p].api \in SignedApis /\ task[p].answered

\* C30: 460, 2401, 429 and 6205 give their errors, any other present code
\* different from 200 gives an ApiError with that code, an absent code or 200
\* gives success (violated by a present code 0)
C30_SignedRequestClassification ==
    \A p \in Runs :
        JustAnswered(p) =>
            ClassifiedAs(task[p], StatedOutcomeKind(task[p].response))

\* C30, amended: as above, with a present code 0 counted as success
C30_SignedRequestClassificationAmended ==
    \A p \in Runs :
        JustAnswered(p) =>
            ClassifiedAs(task[p],
                IF task[p].response.hasCode /\ task[p].response.code = 0 THEN "none"
                ELSE StatedOutcomeKind(task[p].response))

\* a body with code 0 was returned as a success
C30_Witness ==
    \E p \in Runs :
        /\ JustAnswered(p)
        /\ task[p].response.hasCode /\ task[p].response.code = 0
        /\ task[p].pc = "returned"


----------------------------------------------------------------------------
(* The password; the frame of the session fields *)

Passwords == { cred.password : cred \in Credentials }

\* the exported properties that are strings
ExportedStrings(c) ==
    { GetAuthState(c)[f] : f \in {"identityId", "clientId", "iotEndpoint", "region", "email"} }

\* a step inside authenticate or refreshSession, the refresh of a _retry run
\* and the re-authentication of a failed refresh included
CredentialsKept ==
    ( /\ actor' \in Runs
      /\ task[actor'].pc \in {"refreshReq", "authReq", "call", "sleep"}
      /\ client.password # NullStr )
    => client'.password = client.password

\* C28: no step passes the password to the logger, the exported state never
\* holds it, and refresh and re-authentication leave the cached password as
\* it is
C28_PasswordStaysInside ==
    [][ /\ logged' \cap Passwords = {}
        /\ "password" \notin DOMAIN GetAuthState(client')
        /\ ExportedStrings(client') \cap Passwords = {}
        /\ CredentialsKept ]_vars

\* a refresh failed, the client re-authenticated with the cached password,
\* the login was rejected and logged
C28_Witness ==
    \E p \in Runs :
        /\ task[p].op = "refreshSession" /\ task[p].auths >= 1
        /\ task[p].pc = "raised"
        /\ "Authentication failed:" \in logged
        /\ client.password \in Passwords
        /\ logged \cap Passwords = {}

\* the fields of the session
SessionFields(c) ==
    << c.accessToken, c.iotToken, c.refreshToken, c.tokenExpiry, c.iotTokenExpiry,
       c.identityId, c.clientId, c.iotEndpoint, c.region >>

\* a step of restoreAuthState, of authenticate, or of refreshSession
SessionStep ==
    \/ actor' \in {"caller", "restart"}
    \/ /\ actor' \in Runs
       /\ \/ task[actor'].pc \in {"refreshReq", "authReq"}
          \/ /\ Finished(task[actor'])
             /\ task'[actor'].op = "authenticate"
             /\ task'[actor'].pc = "authReq"

\* C29: the session fields change only in steps of authenticate,
\* refreshSession and restoreAuthState; the steps of listDevices,
\* getDeviceStatus, sendCommand, isAuthenticated and getAuthState leave them
\* as they are
C29_SessionFieldsFrame ==
    [][ SessionFields(client') # SessionFields(client) => SessionStep ]_vars

\* a status request and a command answered on a session no step of theirs
\* has touched
C29_Witness ==
    \E p \in Runs :
        /\ task[p].api \in SignedApis /\ task[p].pc = "returned"
        /\ task[p].refreshes = 0 /\ task[p].auths = 0
        /\ task[p].checkedAt # Null
        /\ Truthy(client.accessToken)
        /\ task[p].tokens[Len(task[p].tokens)] = client.iotToken


----------------------------------------------------------------------------
(* Propagation of errors; the refresh inside _retry *)

\* C31: an error that _retry raises inside listDevices, getDeviceStatus or
\* sendCommand is raised to the caller of the operation (violated: the error
\* of the IoT-endpoint listing is caught and logged, and listDevices returns)
C31_RetryErrorsReachTheCaller ==
    \A p \in Runs :
        ( /\ task[p].api \in {"listDevices", "getDeviceStatus", "sendCommand"}
          /\ task[p].retryRaised # NoError )
        => /\ task[p].pc = "raised"
           /\ task[p].result = task[p].retryRaised

\* a step in which the refreshSession() a _retry run awaits raises
RefreshRaises(p) ==
    /\ RetryRun(p)
    /\ task[p].pc \in {"refreshReq", "authReq"}
    /\ task'[p].pc \notin {"refreshReq", "authReq"}
    /\ client'.accessToken = client.accessToken

\* C34: when the refreshSession() started for a TokenExpired failure raises,
\* the run ends there: the call is not invoked again, no sleep is begun, and
\* the error of refreshSession, not the TokenExpired error, is raised
C34_RefreshFailureEndsTheRun ==
    [][ \A p \in Runs :
            RefreshRaises(p) =>
                /\ IsTokenExpiredError(task[p].thrown)
                /\ task'[p].pc = "raised"
                /\ task'[p].result.origin \in RefreshOrigins
                /\ task'[p].result # task[p].thrown
                /\ ~IsTokenExpiredError(task'[p].result)
                /\ task'[p].invoked = task[p].invoked
                /\ task'[p].sleeps = task[p].sleeps
                /\ task'[p].timer = Null ]_vars

\* the second invocation failed with TokenExpired, the refresh request and
\* the re-authentication were rejected, and the run raised after two
\* invocations and one sleep
C34_Witness ==
    \E p \in Runs :
        /\ RetryRun(p) /\ task[p].pc = "raised"
        /\ IsTokenExpiredError(task[p].thrown)
        /\ task[p].refreshes = task[p].snap.refreshes + 1
        /\ task[p].invoked = 2 /\ task[p].sleeps = 1
        /\ task[p].result.kind = "Network"
        /\ task[p].result.origin \in {"refreshReq", "authReq"}

\* C39: in every state the legacy aliases mirror the session: iotToken
\* equals accessToken and iotTokenExpiry equals tokenExpiry
C39_AliasesMirrorSession ==
    /\ client.iotToken = client.accessToken
    /\ client.iotTokenExpiry = client.tokenExpiry

\* a restored session was refreshed: the aliases follow the new token
C39_Witness ==
    \E p \in Runs :
        /\ task[p].op = "refreshSession" /\ task[p].pc = "returned"
        /\ client.accessToken > 1
        /\ client.iotToken = client.accessToken
        /\ client.iotTokenExpiry = client.tokenExpiry


\* C33: every request sent after a refresh has completed carries the token
\* the client holds when it is sent (violated: a listing in flight sends the
\* token it read when listDevices was called)
C33_RequestsCarryTheCurrentToken ==
    \A p \in Runs :
        ( /\ task[p].api \in {"listDevices", "getDeviceStatus", "sendCommand"}
          /\ task[p].invoked > 0 )
        => task[p].sent = task[p].heldAtSend


----------------------------------------------------------------------------
(* The device: its store, its flow triggers, its poll timer *)

\* the token a stored authState restores to
StoreToken(state) ==
    IF Truthy(state.accessToken) THEN state.accessToken ELSE state.iotToken

\* no poll, command or refresh of the device is under way
DeviceAtRest ==
    \A p \in Runs : Finished(task[p]) /\ (task[p].api # "none" => task[p].handled)

\* C35: once a poll or command has completed, the stored authState holds the
\* tokens of the client (violated: a refresh inside _retry is not stored)
C35_StoreFollowsTheSession ==
    (device.api /\ DeviceAtRest) =>
        /\ StoreToken(device.store) = client.accessToken
        /\ device.store.refreshToken = client.refreshToken

\* the triggers the change from one state to the next has, as stated
StatedTriggers(previous, next) ==
    IF previous = "none" \/ previous = next THEN {}
    ELSE (IF next = "mowing" THEN {"mowing_started"} ELSE {})
         \cup (IF previous = "mowing" /\ next \in {"idle", "charging"}
               THEN {"mowing_finished"} ELSE {})
         \cup (IF next = "charging" THEN {"mower_docked"} ELSE {})
         \cup (IF next = "error" THEN {"mower_error"} ELSE {})

\* C36: a status fires exactly the triggers of the change from the state
\* before it: none for the first status or an unchanged state, also when two
\* polls overlap (violated: each poll compares with the state it read when it
\* began)
C36_TriggersMatchStateChanges ==
    device.step = "pollOk" =>
        device.fired = StatedTriggers(device.stateBefore, device.lastState)

\* C37: at most one poll interval timer is set, and none once the device is
\* deleted (violated: onInit starts polling after an onDeleted that came
\* while it awaited initApi)
C37_AtMostOnePollTimer ==
    /\ device.timers <= 1
    /\ device.deleted => device.timers = 0


----------------------------------------------------------------------------
(* _request; the drivers *)

\* the result the specification gives a wire outcome
StatedResult(outcome) ==
    CASE outcome.kind = "error" ->
            [ settled |-> "rejected", kind |-> "Network", code |-> Null,
              value |-> Nothing, details |-> Raw(outcome.cause) ]
      [] outcome.kind = "response" /\ outcome.statusCode \in 200..299 ->
            [ settled |-> "resolved", kind |-> "none", code |-> Null,
              value |-> IF outcome.data \in JsonTexts THEN Parsed(outcome.data)
                        ELSE Raw(outcome.data),
              details |-> Nothing ]
      [] OTHER ->
            [ settled |-> "rejected", kind |-> "Api", code |-> outcome.statusCode,
              value |-> Nothing,
              details |-> IF outcome.data \in JsonTexts THEN Parsed(outcome.data)
                          ELSE Nothing ]

C38_LubaAndLuba2AreDisjoint ==
    ~(driver.matches.LUBA /\ driver.matches.LUBA_2)

====
